---- MODULE Spec2Model ----
(***************************************************************************)
(* Remote-image relay and URL resolver of my-app-v2.                       *)
(*                                                                         *)
(* The relay endpoint (api/proxy-image.js) exists in three revisions; the  *)
(* variable rev says which one is deployed.  The browser-side resolvers    *)
(* (getCorsSafeImageUrl, safeImgSrc) decide whether a reference is routed  *)
(* through the relay.                                                      *)
(*                                                                         *)
(* JavaScript strings are modelled as sequences of code points, so that    *)
(* decodeURIComponent, encodeURIComponent, new URL and String.includes     *)
(* are computed character by character.                                    *)
(***************************************************************************)
EXTENDS Integers, Sequences, FiniteSets, TLC

(***************************************************************************)
(* Strings                                                                 *)
(***************************************************************************)

\* The printable ASCII characters, code points 32..126 in order (the double
\* quote, 34, the backslash, 92, and the back quote, 96, are written by name).
Ascii ==
  << " ", "!", "dquote", "#", "$", "%", "&", "'", "(", ")", "*", "+", ",", "-", ".", "/",
     "0", "1", "2", "3", "4", "5", "6", "7", "8", "9", ":", ";", "<", "=", ">", "?",
     "@", "A", "B", "C", "D", "E", "F", "G", "H", "I", "J", "K", "L", "M", "N", "O",
     "P", "Q", "R", "S", "T", "U", "V", "W", "X", "Y", "Z", "[", "bslash", "]", "^", "_",
     "bquote", "a", "b", "c", "d", "e", "f", "g", "h", "i", "j", "k", "l", "m", "n", "o",
     "p", "q", "r", "s", "t", "u", "v", "w", "x", "y", "z", "{", "|", "}", "~" >>

\* Code point of a one-character string.
Ord(c) == 31 + (CHOOSE i \in 1..Len(Ascii) : Ascii[i] = c)

\* A JavaScript string literal, written as a tuple of its characters.
S(t) == [i \in 1..Len(t) |-> Ord(t[i])]

IsDigit(c) == c \in 48..57
IsUpper(c) == c \in 65..90
IsLower(c) == c \in 97..122
IsAlpha(c) == IsUpper(c) \/ IsLower(c)
IsAlnum(c) == IsAlpha(c) \/ IsDigit(c)

\* Value of a hexadecimal digit, -1 for any other character.
HexVal(c) ==
  IF IsDigit(c) THEN c - 48
  ELSE IF c \in 65..70 THEN c - 55
  ELSE IF c \in 97..102 THEN c - 87
  ELSE -1

\* Upper-case hexadecimal digit of a value in 0..15.
HexDigit(v) == IF v < 10 THEN 48 + v ELSE 55 + v

ToLowerChar(c) == IF IsUpper(c) THEN c + 32 ELSE c

\* String.prototype.toLowerCase on the ASCII range.
ToLower(s) == [i \in 1..Len(s) |-> ToLowerChar(s[i])]

\* s.substring(from - 1, to) with 1-based inclusive positions.
Sub(s, from, to) == IF from > to THEN << >> ELSE SubSeq(s, from, to)

\* s.startsWith(p)
StartsWith(s, p) == Len(p) <= Len(s) /\ SubSeq(s, 1, Len(p)) = p

\* s.includes(p): p occurs in s as a contiguous substring.
Includes(s, p) ==
  \E i \in 0..(Len(s) - Len(p)) : Sub(s, i + 1, i + Len(p)) = p

\* The sequence 1, 2, ..., n.
Indices(n) == [i \in 1..n |-> i]

\* Least and greatest element of a non-empty set of integers.
Min(set) == CHOOSE i \in set : \A j \in set : i <= j
Max(set) == CHOOSE i \in set : \A j \in set : i >= j

\* Position of the first element of s at or after k that lies in set, or
\* Len(s) + 1 when there is none.
FirstIn(s, k, set) ==
  LET at == { i \in k..Len(s) : s[i] \in set }
  IN  IF at = {} THEN Len(s) + 1 ELSE Min(at)

\* Position of the first element of s at or after k that lies outside set,
\* or Len(s) + 1 when there is none.
FirstNotIn(s, k, set) ==
  LET at == { i \in k..Len(s) : s[i] \notin set }
  IN  IF at = {} THEN Len(s) + 1 ELSE Min(at)

\* Position of the last element of s that lies outside set, 0 when there
\* is none.
LastNotIn(s, set) ==
  LET at == { i \in 1..Len(s) : s[i] \notin set }
  IN  IF at = {} THEN 0 ELSE Max(at)

\* Position of the last occurrence of c in s, 0 when there is none.
LastOf(s, c) ==
  LET at == { i \in 1..Len(s) : s[i] = c }
  IN  IF at = {} THEN 0 ELSE Max(at)

\* s without its leading and trailing elements that lie in set.
Strip(s, set) == Sub(s, FirstNotIn(s, 1, set), LastNotIn(s, set))

\* The concatenation of pieces[lo], ..., pieces[hi].
RECURSIVE Concat(_, _, _)
Concat(pieces, lo, hi) ==
  IF lo > hi THEN << >>
  ELSE IF lo = hi THEN pieces[lo]
  ELSE LET mid == (lo + hi) \div 2
       IN  Concat(pieces, lo, mid) \o Concat(pieces, mid + 1, hi)

\* White space removed by String.prototype.trim (ASCII range).
WhiteSpace == {9, 10, 11, 12, 13, 32}

\* String.prototype.trim
Trim(s) == Strip(s, WhiteSpace)

(***************************************************************************)
(* decodeURIComponent                                                      *)
(***************************************************************************)

\* A thrown exception, carrying error.message.
Thrown(msg) == [ok |-> FALSE, message |-> msg]

\* A value returned normally.
Returned(v) == [ok |-> TRUE, val |-> v]

\* The byte written as %XX at position k of s, -1 when there is no
\* well-formed escape at that position.
PctByte(s, k) ==
  IF k + 2 <= Len(s) /\ s[k] = 37 /\ HexVal(s[k + 1]) >= 0 /\ HexVal(s[k + 2]) >= 0
  THEN 16 * HexVal(s[k + 1]) + HexVal(s[k + 2])
  ELSE -1

\* Number of bytes of the UTF-8 sequence that the lead byte b starts,
\* 0 when b cannot start one.
Utf8Len(b) ==
  IF b < 128 THEN 1
  ELSE IF b \in 194..223 THEN 2
  ELSE IF b \in 224..239 THEN 3
  ELSE IF b \in 240..244 THEN 4
  ELSE 0

\* Code point of a UTF-8 sequence of n bytes, lead byte b, continuation
\* bytes cs (each already known to lie in 128..191).
Utf8CodePoint(b, cs, n) ==
  IF n = 2 THEN (b - 192) * 64 + (cs[1] - 128)
  ELSE IF n = 3 THEN (b - 224) * 4096 + (cs[1] - 128) * 64 + (cs[2] - 128)
  ELSE (b - 240) * 262144 + (cs[1] - 128) * 4096 + (cs[2] - 128) * 64 + (cs[3] - 128)

\* Whether cp is the shortest-form, non-surrogate value for n bytes.
Utf8Valid(cp, n) ==
  IF n = 2 THEN cp >= 128
  ELSE IF n = 3 THEN cp >= 2048 /\ cp \notin 55296..57343
  ELSE cp \in 65536..1114111

\* Decode of ECMA-262 reads the string from left to right; a unit is a
\* character that stands for itself or an escape %XX, and an escape of a
\* byte above 127 must start a well-formed UTF-8 sequence of adjacent
\* escapes.  A "%" is never one of the two hexadecimal digits of an escape,
\* so the units and the sequences are determined position by position.

\* The positions of s where a unit starts.
UnitStarts(s) ==
  LET IsUnitStart(i) ==
        s[i] = 37 \/ ~((i > 1 /\ s[i - 1] = 37) \/ (i > 2 /\ s[i - 2] = 37))
  IN  SelectSeq(Indices(Len(s)), IsUnitStart)

\* The units of s: [esc |-> FALSE, v |-> the character], or
\* [esc |-> TRUE, v |-> the byte of the escape, -1 when it is malformed].
Units(s, starts) ==
  [j \in 1..Len(starts) |->
     IF s[starts[j]] = 37 THEN [esc |-> TRUE, v |-> PctByte(s, starts[j])]
     ELSE [esc |-> FALSE, v |-> s[starts[j]]]]

IsCont(u) == u.esc /\ u.v \in 128..191
IsLead(u) == u.esc /\ u.v >= 192

\* The continuation bytes that follow the lead unit j.
Conts(units, j) == [d \in 1..(Utf8Len(units[j].v) - 1) |-> units[j + d].v]

\* Whether the lead unit j starts a well-formed sequence.
LeadOk(units, j, n) ==
  /\ n >= 2
  /\ j + n - 1 <= Len(units)
  /\ \A d \in 1..(n - 1) : IsCont(units[j + d])
  /\ Utf8Valid(Utf8CodePoint(units[j].v, Conts(units, j), n), n)

\* Whether the continuation unit j belongs to the sequence of a lead.
Claimed(units, j) ==
  \E d \in 1..3 :
    /\ j - d >= 1
    /\ IsLead(units[j - d])
    /\ Utf8Len(units[j - d].v) > d
    /\ \A e \in 1..(d - 1) : IsCont(units[j - e])

Malformed(units) ==
  \E j \in 1..Len(units) :
    \/ units[j].esc /\ units[j].v < 0
    \/ IsLead(units[j]) /\ ~LeadOk(units, j, Utf8Len(units[j].v))
    \/ IsCont(units[j]) /\ ~Claimed(units, j)

\* The code point each unit, or sequence of units, stands for.
DecodeUnits(units, outs) ==
  [k \in 1..Len(outs) |->
     IF IsLead(units[outs[k]])
     THEN Utf8CodePoint(units[outs[k]].v, Conts(units, outs[k]), Utf8Len(units[outs[k]].v))
     ELSE units[outs[k]].v]

DecodeChecked(units) ==
  IF Malformed(units) THEN Thrown("URI malformed")
  ELSE LET IsOutput(j) == ~IsCont(units[j])
       IN  Returned(DecodeUnits(units, SelectSeq(Indices(Len(units)), IsOutput)))

\* decodeURIComponent(s): the decoded string, or a thrown URIError.
decodeURIComponent(s) == DecodeChecked(Units(s, UnitStarts(s)))

\* The UTF-8 bytes of a code point.
Utf8Bytes(cp) ==
  IF cp < 128 THEN << cp >>
  ELSE IF cp < 2048 THEN << 192 + (cp \div 64), 128 + (cp % 64) >>
  ELSE IF cp < 65536
    THEN << 224 + (cp \div 4096), 128 + ((cp \div 64) % 64), 128 + (cp % 64) >>
  ELSE << 240 + (cp \div 262144), 128 + ((cp \div 4096) % 64),
          128 + ((cp \div 64) % 64), 128 + (cp % 64) >>

\* The escapes %XX of a sequence of bytes (at most four).
PctEncode(bytes) ==
  Concat([k \in 1..Len(bytes) |->
            << 37, HexDigit(bytes[k] \div 16), HexDigit(bytes[k] % 16) >>],
         1, Len(bytes))

(***************************************************************************)
(* new URL(input), without a base: the part of the WHATWG URL parser that  *)
(* the inputs below exercise (scheme, credentials, host, port, path and    *)
(* query of special and non-special schemes).  IPv4/IPv6 literals, IDNA    *)
(* mapping of non-ASCII hosts and dot-segment removal are outside this     *)
(* part.                                                                   *)
(***************************************************************************)

\* Leading and trailing C0 control or space are removed, and every ASCII
\* tab or newline.
IsNotTabOrNewline(c) == c \notin {9, 10, 13}

StripUrl(s) == SelectSeq(Strip(s, 0..32), IsNotTabOrNewline)

SchemeChars ==
  (48..57) \cup (65..90) \cup (97..122) \cup {43, 45, 46}

\* Position of the ":" that ends a scheme starting at t[1], 0 when t does
\* not start with a scheme.
SchemeEnd(t) ==
  LET k == FirstNotIn(t, 2, SchemeChars)
  IN  IF t = << >> \/ ~IsAlpha(t[1]) THEN 0
      ELSE IF k <= Len(t) /\ t[k] = 58 THEN k
      ELSE 0

SpecialSchemes ==
  { S(<<"h","t","t","p">>), S(<<"h","t","t","p","s">>), S(<<"w","s">>),
    S(<<"w","s","s">>), S(<<"f","t","p">>) }

\* First position at or after k that holds neither "/" nor "\".
SkipSlashes(s, k) == FirstNotIn(s, k, {47, 92})

\* The positions of s that are not the digits of a well-formed escape.
LenientStarts(s) ==
  LET IsUnitStart(i) ==
        ~((i > 1 /\ PctByte(s, i - 1) >= 0) \/ (i > 2 /\ PctByte(s, i - 2) >= 0))
  IN  SelectSeq(Indices(Len(s)), IsUnitStart)

PercentDecodeAt(s, starts) ==
  [k \in 1..Len(starts) |->
     IF PctByte(s, starts[k]) >= 0 THEN PctByte(s, starts[k]) ELSE s[starts[k]]]

\* Percent-decoding of the URL standard: a malformed escape is kept as is.
PercentDecode(s) == PercentDecodeAt(s, LenientStarts(s))

ForbiddenHostCodePoints ==
  (0..32) \cup {35, 47, 58, 60, 62, 63, 64, 91, 92, 93, 94, 124, 127}

ForbiddenDomainCodePoints == ForbiddenHostCodePoints \cup {37}

IsAllDigits(s) == \A i \in 1..Len(s) : IsDigit(s[i])

BackslashToSlash(s) == [i \in 1..Len(s) |-> IF s[i] = 92 THEN 47 ELSE s[i]]

InvalidURL == Thrown("Invalid URL")

\* Code points the parser escapes in a path and in a query.
PathEscaped == (0..32) \cup {34, 35, 60, 62, 63, 96, 123, 125}
QueryEscaped(special) ==
  (0..32) \cup {34, 35, 60, 62} \cup (IF special THEN {39} ELSE {})

\* s with its code points of set, and those above 126, written as escapes.
EscapeIn(s, set) ==
  Concat([i \in 1..Len(s) |->
            IF s[i] \in set \/ s[i] > 126 THEN PctEncode(Utf8Bytes(s[i]))
            ELSE << s[i] >>],
         1, Len(s))

\* The record new URL() yields for a host and a port that are valid.
UrlRecord(scheme, special, userinfo, host, port, path, query) ==
  [ protocol |-> scheme \o << 58 >>,
    userinfo |-> userinfo,
    hostname |-> host,
    port     |-> port,
    pathname |-> IF special
                 THEN (IF path = << >> THEN << 47 >>
                       ELSE EscapeIn(BackslashToSlash(path), PathEscaped))
                 ELSE path,
    search   |-> IF Len(query) = 1 THEN << >>
                 ELSE EscapeIn(query, QueryEscaped(special)) ]

\* Host and port are checked; the host of a special scheme is a domain.
UrlChecked(scheme, special, userinfo, host, port, path, query) ==
  IF special /\ host = << >> THEN InvalidURL
  ELSE IF \E i \in 1..Len(host) :
            host[i] \in (IF special THEN ForbiddenDomainCodePoints
                         ELSE ForbiddenHostCodePoints) THEN InvalidURL
  ELSE IF ~IsAllDigits(port) \/ Len(port) > 5 THEN InvalidURL
  ELSE Returned(UrlRecord(scheme, special, userinfo, host, port, path, query))

\* hostport is the authority after its credentials; colon is the position
\* of its last ":", 0 when it has none.
UrlHostPort(scheme, special, userinfo, hostport, colon, path, query) ==
  UrlChecked(scheme, special, userinfo,
             IF special
             THEN ToLower(PercentDecode(IF colon = 0 THEN hostport
                                        ELSE Sub(hostport, 1, colon - 1)))
             ELSE (IF colon = 0 THEN hostport ELSE Sub(hostport, 1, colon - 1)),
             IF colon = 0 THEN << >> ELSE Sub(hostport, colon + 1, Len(hostport)),
             path, query)

\* auth is the authority; at is the position of its last "@", 0 when it
\* has none.
UrlAuthority(scheme, special, auth, at, path, query) ==
  UrlHostPort(scheme, special,
              IF at = 0 THEN << >> ELSE Sub(auth, 1, at - 1),
              Sub(auth, at + 1, Len(auth)),
              LastOf(Sub(auth, at + 1, Len(auth)), 58),
              path, query)

\* tail is the input after the authority; pathEnd is where its path ends.
UrlTail(scheme, special, auth, tail, pathEnd) ==
  UrlAuthority(scheme, special, auth, LastOf(auth, 64),
               Sub(tail, 1, pathEnd - 1),
               IF pathEnd <= Len(tail) /\ tail[pathEnd] = 63
               THEN Sub(tail, pathEnd, FirstIn(tail, pathEnd, {35}) - 1)
               ELSE << >>)

\* rest is the input after "scheme:"; the authority is rest[from..authEnd-1],
\* and there is none when from = 0.
UrlSplit(scheme, special, rest, from, authEnd) ==
  UrlTail(scheme, special,
          IF from = 0 THEN << >> ELSE Sub(rest, from, authEnd - 1),
          Sub(rest, authEnd, Len(rest)),
          FirstIn(Sub(rest, authEnd, Len(rest)), 1, {63, 35}))

\* Where the authority starts in rest: after the slashes of a special
\* scheme, after the "//" of another scheme, 0 when there is none.
AuthorityStart(special, rest) ==
  IF special THEN SkipSlashes(rest, 1)
  ELSE IF StartsWith(rest, << 47, 47 >>) THEN 3
  ELSE 0

UrlParts(scheme, special, rest, from) ==
  UrlSplit(scheme, special, rest, from,
           IF from = 0 THEN 1
           ELSE FirstIn(rest, from, IF special THEN {47, 92, 63, 35} ELSE {47, 63, 35}))

UrlAfterScheme(scheme, rest) ==
  UrlParts(scheme, scheme \in SpecialSchemes, rest,
           AuthorityStart(scheme \in SpecialSchemes, rest))

\* t is the stripped input; colon is where its scheme ends.
UrlWithScheme(t, colon) ==
  IF colon = 0 THEN InvalidURL
  ELSE UrlAfterScheme(ToLower(Sub(t, 1, colon - 1)), Sub(t, colon + 1, Len(t)))

UrlStripped(t) == UrlWithScheme(t, SchemeEnd(t))

\* new URL(input): the parsed URL, or a thrown TypeError.
ParseURL(input) == UrlStripped(StripUrl(input))

\* URL.prototype.toString: the serialized URL.
Href(u) ==
  u.protocol
  \o (IF u.hostname # << >> \/ u.protocol \in { sc \o << 58 >> : sc \in SpecialSchemes }
      THEN << 47, 47 >> \o (IF u.userinfo = << >> THEN << >> ELSE u.userinfo \o << 64 >>)
           \o u.hostname \o (IF u.port = << >> THEN << >> ELSE << 58 >> \o u.port)
      ELSE << >>)
  \o u.pathname \o u.search

(***************************************************************************)
(* JavaScript values of req.query.url and of image references              *)
(***************************************************************************)

Undefined == [type |-> "undefined"]
Null == [type |-> "null"]
Num(n) == [type |-> "number", num |-> n]
Str(s) == [type |-> "string", val |-> s]
Arr(items) == [type |-> "array", items |-> items]

\* Truthy as a test for presence: the empty string passes.
TruthyWhenDefined(v) == v.type \notin {"undefined", "null"}

\* ToBoolean(v)
Truthy(v) ==
  IF v.type \in {"undefined", "null"} THEN FALSE
  ELSE IF v.type = "string" THEN v.val # << >>
  ELSE IF v.type = "number" THEN v.num # 0
  ELSE TRUE

\* Array.prototype.join(",")
RECURSIVE Join(_)
Join(items) ==
  IF items = << >> THEN << >>
  ELSE IF Len(items) = 1 THEN items[1]
  ELSE items[1] \o << 44 >> \o Join(Tail(items))

\* ToString(v), as applied by decodeURIComponent to its argument.
JsToString(v) ==
  IF v.type = "string" THEN v.val
  ELSE IF v.type = "array" THEN Join(v.items)
  ELSE IF v.type = "null" THEN S(<<"n","u","l","l">>)
  ELSE S(<<"u","n","d","e","f","i","n","e","d">>)

(***************************************************************************)
(* The response object of the serverless runtime                           *)
(***************************************************************************)

NoBody == [kind |-> "none"]
NoHeaders == [n \in {} |-> ""]

\* The response as the runtime hands it to the handler.
NewRes == [statusCode |-> 200, headers |-> NoHeaders, body |-> NoBody, finished |-> 0]

\* res.setHeader(name, value)
setHeader(r, name, value) ==
  [r EXCEPT !.headers =
     [n \in (DOMAIN r.headers) \cup {name} |-> IF n = name THEN value ELSE r.headers[n]]]

\* res.status(code)
status(r, code) == [r EXCEPT !.statusCode = code]

\* res.end()
end(r) == [r EXCEPT !.finished = @ + 1]

\* res.json(obj)
json(r, obj) ==
  [setHeader(r, "Content-Type", "application/json; charset=utf-8")
     EXCEPT !.body = [kind |-> "json", value |-> obj], !.finished = @ + 1]

\* Buffer.from(arrayBuffer): the bytes of the buffer, one by one.
BufferFrom(arrayBuffer) == [i \in 1..Len(arrayBuffer) |-> arrayBuffer[i] % 256]

\* res.send(buffer)
send(r, buffer) ==
  [(IF "Content-Type" \in DOMAIN r.headers THEN r
    ELSE setHeader(r, "Content-Type", "application/octet-stream"))
     EXCEPT !.body = [kind |-> "bytes", bytes |-> buffer], !.finished = @ + 1]

(***************************************************************************)
(* The relay handler.  Each revision is cut at its two await points:       *)
(*   Entry      from the call to the fetch (or to an early response);      *)
(*              Decoded and Parsed are its steps after decodeURIComponent  *)
(*              and after new URL                                          *)
(*   OnResponse from the resolved fetch to response.arrayBuffer()          *)
(*   OnBody     from the resolved arrayBuffer() to the end                 *)
(*   Catch      the outer catch block                                      *)
(* Entry yields the response so far and the fetch it started, if any.      *)
(***************************************************************************)

allowedDomains == << S(<<"m","y","-","b","u","s",".","s","t","o","r","a","g","e","-","t","e",".","c","o","m">>) >>

\* ArrayIncludes as a substring test: the value contains an element.
ArrayIncludesSubstring(arr, x) == \E i \in 1..Len(arr) : Includes(x, arr[i])

\* Array.prototype.includes
ArrayIncludes(arr, x) == \E i \in 1..Len(arr) : arr[i] = x

\* setCorsHeaders announcing the method GET only.
setCorsHeadersGetOnly(r) ==
  setHeader(setHeader(setHeader(r,
    "Access-Control-Allow-Origin", "*"),
    "Access-Control-Allow-Methods", "GET"),
    "Access-Control-Allow-Headers", "Content-Type")

\* The three CORS headers every revision sets first.
setCorsHeaders(r) ==
  setHeader(setHeader(setHeader(r,
    "Access-Control-Allow-Origin", "*"),
    "Access-Control-Allow-Methods", "GET, OPTIONS"),
    "Access-Control-Allow-Headers", "Content-Type")

Responded(r) == [res |-> r, fetch |-> << >>, caught |-> << >>]
Fetching(r, url, hdrs) ==
  [res |-> r, fetch |-> << [url |-> url, headers |-> hdrs] >>, caught |-> << >>]
Faulted(r, error) == [res |-> r, fetch |-> << >>, caught |-> << error >>]

\* ---- revision 1: api/proxy-image.js ----

handler1Catch(r, error) ==
  json(status(r, 500), [error |-> "Internal server error"])

handler1Parsed(r0, decodedUrl, urlObj) ==
  IF ~urlObj.ok THEN Faulted(handler1Catch(r0, urlObj.message), urlObj.message)
  ELSE IF ~ArrayIncludes(allowedDomains, urlObj.val.hostname)
    THEN Responded(json(status(r0, 403), [error |-> "Domain not allowed"]))
  ELSE Fetching(r0, decodedUrl,
                [n \in {"User-Agent"} |-> "Mozilla/5.0 (compatible; ImageProxy/1.0)"])

handler1Decoded(r0, decoded) ==
  IF ~decoded.ok THEN Faulted(handler1Catch(r0, decoded.message), decoded.message)
  ELSE handler1Parsed(r0, decoded.val, ParseURL(decoded.val))

\* handler1Checked without the check that the method is GET.
handler1CheckedAnyMethod(r0, request) ==
  IF request.method = "OPTIONS" THEN Responded(end(status(r0, 200)))
  ELSE IF ~Truthy(request.url)
    THEN Responded(json(status(r0, 400), [error |-> "URL parameter is required"]))
  ELSE handler1Decoded(r0, decodeURIComponent(JsToString(request.url)))

handler1Checked(r0, request) ==
  IF request.method = "OPTIONS" THEN Responded(end(status(r0, 200)))
  ELSE IF request.method # "GET"
    THEN Responded(json(status(r0, 405), [error |-> "Method not allowed"]))
  ELSE IF ~Truthy(request.url)
    THEN Responded(json(status(r0, 400), [error |-> "URL parameter is required"]))
  ELSE handler1Decoded(r0, decodeURIComponent(JsToString(request.url)))

handler1Entry(request) == handler1Checked(setCorsHeaders(NewRes), request)

\* ContentTypeOrDefault ignoring what the upstream declared.
ContentTypeAlwaysDefault(got) == "image/jpeg"

\* The content type the handler gives the response: headers.get() is << >>
\* for null, else the one-element sequence of the header's value.
ContentTypeOrDefault(got) ==
  IF got = << >> \/ got = << "" >> THEN "image/jpeg" ELSE got[1]

IsOk(response) == response.status \in 200..299

\* handler1OnResponse answering every upstream failure with 500.
handler1OnResponseAlways500(r, response) ==
  IF ~IsOk(response)
  THEN [res |-> json(status(r, 500),
                     [error |-> "Failed to fetch image: " \o response.statusText]),
        readBody |-> FALSE]
  ELSE [res |-> setHeader(setHeader(r, "Content-Type",
                                    ContentTypeOrDefault(response.contentType)),
                          "Cache-Control", "public, max-age=3600"),
        readBody |-> TRUE]

handler1OnResponse(r, response) ==
  IF ~IsOk(response)
  THEN [res |-> json(status(r, response.status),
                     [error |-> "Failed to fetch image: " \o response.statusText]),
        readBody |-> FALSE]
  ELSE [res |-> setHeader(setHeader(r, "Content-Type",
                                    ContentTypeOrDefault(response.contentType)),
                          "Cache-Control", "public, max-age=3600"),
        readBody |-> TRUE]

handler1OnBody(r, response, buffer) == send(r, BufferFrom(buffer))

\* ---- revision 2: decode and parse failures answered on the spot ----

handler2Catch(r, error) ==
  json(status(r, 500), [error |-> "Internal server error"])

handler2Parsed(r0, decodedUrl, urlObj) ==
  IF ~urlObj.ok
    THEN Responded(json(status(r0, 400), [error |-> "Invalid URL format"]))
  ELSE IF ~ArrayIncludes(allowedDomains, urlObj.val.hostname)
    THEN Responded(json(status(r0, 403), [error |-> "Domain not allowed"]))
  ELSE Fetching(r0, decodedUrl,
                [n \in {"User-Agent"} |-> "Mozilla/5.0 (compatible; ImageProxy/1.0)"])

handler2Decoded(r0, decoded) ==
  IF ~decoded.ok
    THEN Responded(json(status(r0, 400), [error |-> "Invalid URL encoding"]))
  ELSE handler2Parsed(r0, decoded.val, ParseURL(decoded.val))

handler2Checked(r0, request) ==
  IF request.method = "OPTIONS" THEN Responded(end(status(r0, 200)))
  ELSE IF request.method # "GET"
    THEN Responded(json(status(r0, 405), [error |-> "Method not allowed"]))
  ELSE IF ~Truthy(request.url)
    THEN Responded(json(status(r0, 400), [error |-> "URL parameter is required"]))
  ELSE handler2Decoded(r0, decodeURIComponent(JsToString(request.url)))

handler2Entry(request) == handler2Checked(setCorsHeaders(NewRes), request)

handler2OnResponse(r, response) ==
  IF ~IsOk(response)
  THEN [res |-> json(status(r, response.status),
                     [error |-> "Failed to fetch image: " \o response.statusText]),
        readBody |-> FALSE]
  ELSE [res |-> setHeader(setHeader(r, "Content-Type",
                                    ContentTypeOrDefault(response.contentType)),
                          "Cache-Control", "public, max-age=3600"),
        readBody |-> TRUE]

handler2OnBody(r, response, buffer) == send(r, BufferFrom(buffer))

\* ---- revision 3: typed parameter check, error.message in the 500 body ----

\* error.message || "Internal server error"
handler3Catch(r, error) ==
  json(status(r, 500),
       [error |-> IF error # "" THEN error ELSE "Internal server error"])

handler3Parsed(r0, decodedUrl, parsed) ==
  IF ~parsed.ok THEN Faulted(handler3Catch(r0, parsed.message), parsed.message)
  ELSE IF ~ArrayIncludes(allowedDomains, parsed.val.hostname)
    THEN Responded(json(status(r0, 403), [error |-> "Domain not allowed"]))
  ELSE Fetching(r0, decodedUrl,
                [n \in {"User-Agent", "Accept"} |->
                   IF n = "Accept" THEN "image/*" ELSE "Mozilla/5.0"])

handler3Decoded(r0, decoded) ==
  IF ~decoded.ok THEN Faulted(handler3Catch(r0, decoded.message), decoded.message)
  ELSE handler3Parsed(r0, decoded.val, ParseURL(decoded.val))

handler3Checked(r0, request) ==
  IF request.method = "OPTIONS" THEN Responded(end(status(r0, 200)))
  ELSE IF request.method # "GET"
    THEN Responded(json(status(r0, 405), [error |-> "Method not allowed"]))
  ELSE IF \/ ~Truthy(request.url)
          \/ request.url.type # "string"
          \/ Trim(request.url.val) = << >>
    THEN Responded(json(status(r0, 400),
                        [error |-> "Missing or invalid ?url parameter"]))
  ELSE handler3Decoded(r0, decodeURIComponent(request.url.val))

handler3Entry(request) == handler3Checked(setCorsHeaders(NewRes), request)

handler3OnResponse(r, response) ==
  IF ~IsOk(response)
  THEN [res |-> json(status(r, response.status),
                     [error |-> "Failed to fetch image: " \o response.statusText]),
        readBody |-> FALSE]
  ELSE [res |-> r, readBody |-> TRUE]

handler3OnBody(r, response, buffer) ==
  send(status(setHeader(setHeader(r, "Content-Type",
                                  ContentTypeOrDefault(response.contentType)),
                        "Cache-Control", "public, max-age=3600"), 200),
       BufferFrom(buffer))

\* ---- the deployed revision ----

Revisions == {1, 2, 3}

handlerEntry(v, request) ==
  IF v = 1 THEN handler1Entry(request)
  ELSE IF v = 2 THEN handler2Entry(request)
  ELSE handler3Entry(request)

handlerOnResponse(v, r, response) ==
  IF v = 1 THEN handler1OnResponse(r, response)
  ELSE IF v = 2 THEN handler2OnResponse(r, response)
  ELSE handler3OnResponse(r, response)

handlerOnBody(v, r, response, buffer) ==
  IF v = 1 THEN handler1OnBody(r, response, buffer)
  ELSE IF v = 2 THEN handler2OnBody(r, response, buffer)
  ELSE handler3OnBody(r, response, buffer)

handlerCatch(v, r, error) ==
  IF v = 1 THEN handler1Catch(r, error)
  ELSE IF v = 2 THEN handler2Catch(r, error)
  ELSE handler3Catch(r, error)

(***************************************************************************)
(* Encoders used by the browser-side resolvers                             *)
(***************************************************************************)

\* Characters encodeURIComponent leaves as they are: A-Z a-z 0-9 - _ . ! ~ * ' ( )
UriUnreserved ==
  (48..57) \cup (65..90) \cup (97..122) \cup {45, 95, 46, 33, 126, 42, 39, 40, 41}

\* encodeURIComponent(s)
encodeURIComponent(s) ==
  Concat([i \in 1..Len(s) |->
            IF s[i] \in UriUnreserved THEN << s[i] >> ELSE PctEncode(Utf8Bytes(s[i]))],
         1, Len(s))

\* Characters the application/x-www-form-urlencoded serializer leaves as
\* they are: A-Z a-z 0-9 * - . _
FormUnreserved ==
  (48..57) \cup (65..90) \cup (97..122) \cup {42, 45, 46, 95}

\* The serializer of URLSearchParams applied to one name or value.
FormEncode(s) ==
  Concat([i \in 1..Len(s) |->
            IF s[i] \in FormUnreserved THEN << s[i] >>
            ELSE IF s[i] = 32 THEN << 43 >>
            ELSE PctEncode(Utf8Bytes(s[i]))],
         1, Len(s))

\* The pieces of s between the occurrences of c.
SplitAt(s, seps) ==
  [k \in 1..(Len(seps) + 1) |->
     Sub(s, IF k = 1 THEN 1 ELSE seps[k - 1] + 1,
            IF k <= Len(seps) THEN seps[k] - 1 ELSE Len(s))]

Split(s, c) ==
  LET IsSep(i) == s[i] = c
  IN  SplitAt(s, SelectSeq(Indices(Len(s)), IsSep))

PlusToSpace(s) == [i \in 1..Len(s) |-> IF s[i] = 43 THEN 32 ELSE s[i]]

\* One name=value piece of a query, decoded (queries of the inputs are
\* ASCII, so the decoded bytes are the characters).
FormPair(piece, eq) ==
  << PercentDecode(PlusToSpace(Sub(piece, 1, eq - 1))),
     PercentDecode(PlusToSpace(Sub(piece, eq + 1, Len(piece)))) >>

IsNotEmpty(piece) == piece # << >>

FormPairs(pieces) ==
  [k \in 1..Len(pieces) |-> FormPair(pieces[k], FirstIn(pieces[k], 1, {61}))]

\* new URLSearchParams(search)
URLSearchParams(search) ==
  FormPairs(SelectSeq(Split(IF search # << >> /\ search[1] = 63
                            THEN Sub(search, 2, Len(search)) ELSE search, 38),
                      IsNotEmpty))

\* params.set(name, value): the first pair of that name gets the value
\* and the other pairs of that name are removed; without such a pair the
\* new pair is appended.
ParamsSetAt(params, name, value, first) ==
  IF first > Len(params) THEN Append(params, << name, value >>)
  ELSE LET Keep(k) == k <= first \/ params[k][1] # name
           kept == SelectSeq(Indices(Len(params)), Keep)
       IN  [k \in 1..Len(kept) |->
              IF kept[k] = first THEN << name, value >> ELSE params[kept[k]]]

ParamsSet(params, name, value) ==
  LET at == { k \in 1..Len(params) : params[k][1] = name }
  IN  ParamsSetAt(params, name, value, IF at = {} THEN Len(params) + 1 ELSE Min(at))

\* params.toString()
ParamsToString(params) ==
  Concat([k \in 1..Len(params) |->
            (IF k = 1 THEN << >> ELSE << 38 >>)
            \o FormEncode(params[k][1]) \o << 61 >> \o FormEncode(params[k][2])],
         1, Len(params))

(***************************************************************************)
(* Browser-side resolvers                                                  *)
(***************************************************************************)

\* A TypeError thrown out of a resolver.
TypeError(msg) == [type |-> "throw", message |-> msg]

\* The host name both resolvers look for in urlObj.hostname.
storageHostname == S(<<"m","y","-","b","u","s",".","s","t","o","r","a","g","e","-","t","e",".","c","o","m">>)

Https     == S(<<"h","t","t","p","s",":","/","/">>)
DevPrefix == S(<<"/","_","_","m","b","u","s","_","_">>)
ProxyPath == S(<<"/","a","p","i","/","p","r","o","x","y","-","i","m","a","g","e">>)
UrlParam  == S(<<"u","r","l">>)
VercelApp == S(<<"v","e","r","c","e","l",".","a","p","p">>)
VercelCom == S(<<"v","e","r","c","e","l",".","c","o","m">>)

\* `/__mbus__${urlObj.pathname}${urlObj.search}`
DevRoute(urlObj) == DevPrefix \o urlObj.pathname \o urlObj.search

\* new URL('/api/proxy-image', origin) with searchParams.set('url', value),
\* serialized.
ProxyUrl(origin, value) ==
  origin \o ProxyPath \o << 63 >>
  \o ParamsToString(ParamsSet(<< >>, UrlParam, value))

getCorsSafeParsed(originalUrl, urlObj, nodeEnv, location) ==
  IF ~urlObj.ok THEN Str(originalUrl)
  ELSE IF ~Includes(urlObj.val.hostname, storageHostname) THEN Str(originalUrl)
  ELSE IF nodeEnv = "development" THEN Str(DevRoute(urlObj.val))
  ELSE Str(ProxyUrl(location.origin, originalUrl))

\* getCorsSafeImageUrl(originalUrl), under process.env.NODE_ENV and
\* window.location
getCorsSafeImageUrl(originalUrl, nodeEnv, location) ==
  IF ~Truthy(originalUrl) \/ originalUrl.type # "string" THEN Null
  ELSE getCorsSafeParsed(originalUrl.val, ParseURL(originalUrl.val), nodeEnv, location)

\* The direct URL with the cache-busting parameter _t.
BustedUrl(urlObj, now) ==
  Href([urlObj EXCEPT !.search =
          << 63 >> \o ParamsToString(ParamsSet(URLSearchParams(urlObj.search),
                                               S(<<"_","t">>), now))])

\* `https://${window.location.hostname}/api/proxy-image?url=${encodedUrl}`
FullProxyUrl(location, encodedUrl) ==
  Https \o location.hostname \o ProxyPath \o << 63 >> \o UrlParam \o << 61 >> \o encodedUrl

safeImgSrcParsed(normalizedUrl, urlObj, dev, vercel, location, now) ==
  IF ~urlObj.ok THEN Str(normalizedUrl)
  ELSE IF ~Includes(urlObj.val.hostname, storageHostname) THEN Str(normalizedUrl)
  ELSE IF dev THEN Str(DevRoute(urlObj.val))
  ELSE IF \/ vercel = "1"
          \/ Includes(location.hostname, VercelApp)
          \/ Includes(location.hostname, VercelCom)
    THEN Str(FullProxyUrl(location, encodeURIComponent(normalizedUrl)))
  ELSE Str(BustedUrl(urlObj.val, now))

safeImgSrcTrimmed(normalizedUrl, dev, vercel, location, now) ==
  IF StartsWith(normalizedUrl, S(<<"h","t","t","p">>))
  THEN safeImgSrcParsed(normalizedUrl, ParseURL(normalizedUrl), dev, vercel, location, now)
  ELSE Str(normalizedUrl)

\* safeImgSrc(url), under import.meta.env.DEV, import.meta.env.VERCEL,
\* window.location and Date.now()
safeImgSrc(url, dev, vercel, location, now) ==
  IF ~Truthy(url) THEN Null
  ELSE IF url.type # "string" THEN TypeError("url.trim is not a function")
  ELSE IF Trim(url.val) = << >> THEN Null
  ELSE safeImgSrcTrimmed(Trim(url.val), dev, vercel, location, now)

(***************************************************************************)
(* Requests and upstream answers the relay is run on                       *)
(***************************************************************************)

\* Longest upstream body, in bytes.
MaxBodyLen == 2

StorageHost == allowedDomains[1]
EvilHost   == S(<<"e","v","i","l",".","e","x","a","m","p","l","e">>)
ImgPath    == S(<<"/","a",".","p","n","g">>)

UrlAllowed      == Https \o StorageHost \o ImgPath
UrlAllowedQuery == UrlAllowed \o S(<<"?","v","=","1","&","s","=","a"," ","b">>)
UrlAllowedPort  == Https \o StorageHost \o S(<<":","8","4","4","3">>) \o ImgPath
UrlAllowedUpper == Https \o S(<<"M","Y">>) \o Sub(StorageHost, 3, Len(StorageHost)) \o ImgPath
UrlAllowedEsc   == UrlAllowed \o S(<<"%","2","5","2","0">>)
UrlEncoded      == S(<<"h","t","t","p","s","%","3","A","%","2","F","%","2","F">>)
                   \o StorageHost \o S(<<"%","2","F","a",".","p","n","g">>)
UrlEvil         == Https \o EvilHost \o ImgPath
UrlSuffixHost   == Https \o StorageHost \o << 46 >> \o EvilHost \o ImgPath
UrlPrefixHost   == Https \o S(<<"x">>) \o StorageHost \o ImgPath
UrlUserinfo     == Https \o StorageHost \o << 64 >> \o EvilHost \o ImgPath
UrlHostInPath   == Https \o EvilHost \o << 47 >> \o StorageHost
UrlBadEscape    == UrlAllowed \o S(<<"?","q","=","%">>)
UrlBadUtf8      == UrlAllowed \o S(<<"?","q","=","%","E","0","%","A","4","%","A">>)
UrlRelative     == S(<<"/","i","m","g">>) \o ImgPath
UrlData         == S(<<"d","a","t","a",":","i","m","a","g","e","/","p","n","g",",","A">>)
UrlBlank        == S(<<" ">>)
UrlPadded       == S(<<" ">>) \o UrlAllowed \o S(<<" ">>)

UrlStrings ==
  { << >>, UrlAllowed, UrlAllowedQuery, UrlAllowedPort, UrlAllowedUpper, UrlAllowedEsc,
    UrlEncoded, UrlEvil, UrlSuffixHost, UrlPrefixHost, UrlUserinfo, UrlHostInPath,
    UrlBadEscape, UrlBadUtf8, UrlRelative, UrlData, UrlBlank, UrlPadded }

\* Values of req.query.url: absent, given once, given twice.
QueryValues ==
  {Undefined} \cup { Str(u) : u \in UrlStrings } \cup {Arr(<< UrlEvil, UrlAllowed >>)}

Methods == {"GET", "OPTIONS", "POST", "HEAD"}

Requests == [method : Methods, url : QueryValues]

RECURSIVE SeqsUpTo(_, _)
SeqsUpTo(set, n) ==
  IF n = 0 THEN {<< >>}
  ELSE LET shorter == SeqsUpTo(set, n - 1)
       IN  shorter \cup { Append(b, x) : b \in shorter, x \in set }

UpstreamStatuses ==
  { [status |-> 200, statusText |-> "OK"],
    [status |-> 404, statusText |-> "Not Found"],
    [status |-> 503, statusText |-> "Service Unavailable"] }

\* headers.get('content-type'): << >> for null, else the value.
UpstreamContentTypes == { << >>, << "" >>, << "image/png" >> }

UpstreamBodies == SeqsUpTo({0, 255}, MaxBodyLen)

UpstreamResponses ==
  { [status |-> st.status, statusText |-> st.statusText, contentType |-> ct, body |-> b] :
      st \in UpstreamStatuses, ct \in UpstreamContentTypes, b \in UpstreamBodies }

\* error.message of a rejected fetch() and of a rejected arrayBuffer().
FetchErrors == {"fetch failed"}
BodyErrors  == {"terminated"}

(***************************************************************************)
(* References and environments the resolvers are run on                    *)
(***************************************************************************)

References == {Undefined, Null, Num(42)} \cup { Str(u) : u \in UrlStrings }

LocalHost  == S(<<"l","o","c","a","l","h","o","s","t">>)
VercelHost == S(<<"m","y","-","a","p","p",".">>) \o VercelApp
OtherHost  == S(<<"c","o","n","t","r","a","c","t","s",".","e","x","a","m","p","l","e">>)

\* window.location
Locations ==
  { [hostname |-> LocalHost,
     origin   |-> S(<<"h","t","t","p",":","/","/">>) \o LocalHost \o S(<<":","5","1","7","3">>)],
    [hostname |-> VercelHost, origin |-> Https \o VercelHost],
    [hostname |-> OtherHost,  origin |-> Https \o OtherHost] }

\* process.env.NODE_ENV
NodeEnvs == {"development", "production"}

\* import.meta.env.VERCEL
VercelFlags == {"0", "1"}

\* Date.now().toString()
Nows == { S(<<"1","7","0","0","0","0","0","0","0","0","0","0","0">>) }

Pending == [type |-> "pending"]

\* The calls of a resolver, not yet evaluated.
ResolverCalls ==
  { [fn |-> "getCorsSafeImageUrl", ref |-> ref, nodeEnv |-> e, location |-> loc,
     out |-> Pending] : ref \in References, e \in NodeEnvs, loc \in Locations }
  \cup
  { [fn |-> "safeImgSrc", ref |-> ref, dev |-> d, vercel |-> v, location |-> loc,
     now |-> now, out |-> Pending] :
       ref \in References, d \in BOOLEAN, v \in VercelFlags, loc \in Locations,
       now \in Nows }

(***************************************************************************)
(* State                                                                   *)
(***************************************************************************)

VARIABLES
  rev,        \* the deployed revision of the relay handler
  req,        \* the request being handled
  pc,         \* where the handler is: idle, fetching, reading, done
  res,        \* the response object
  fetched,    \* the fetch() calls made for this request
  upstream,   \* the upstream exchange: none, pending, streaming, silent, closed
  response,   \* the upstream response, once fetch() resolved
  caught,     \* the error the outer catch block received, if any
  resolved,   \* the call of a browser-side resolver and its result
  now,        \* Date.now(), in milliseconds
  imageCache, \* window.imageCache
  tasks,      \* the loads of image references that have been started
  batch,      \* the batch loader that is running, if any
  hidden,     \* document.hidden
  images,     \* the img elements of the document
  sessions,   \* the refresh sessions startAutoRefresh has started
  refreshes,  \* the calls of forceRefreshAllImages
  cleaned,    \* the calls of cleanupImageCache: how many, the last options and count
  store,      \* a cache made by createCache
  share       \* isSharingRef, the share button and the calls of handleSharePdf

relayVars == << rev, req, pc, res, fetched, upstream, response, caught >>
loaderVars == << now, imageCache, tasks, batch >>
appVars == << cleaned, store, share >>
pageVars == << hidden, images, sessions, refreshes, cleaned, store, share >>
vars == << rev, req, pc, res, fetched, upstream, response, caught, resolved,
          now, imageCache, tasks, batch, hidden, images, sessions, refreshes,
          cleaned, store, share >>

NoRequest == [method |-> "", url |-> Undefined]
NotResolved == [fn |-> "none"]
\* window.imageCache before smartRefreshImage created it.
NoCache == [created |-> FALSE, entries |-> << >>]
NoBatch == [fn |-> "none", pc |-> "none"]
\* cleanupImageCache has not been called.
NoCleanup == [calls |-> 0, maxAge |-> 0, maxSize |-> 0, removed |-> 0]
\* createCache has not been called.
NoStore == [created |-> FALSE, maxSize |-> 0, entries |-> << >>, puts |-> 0]
\* The page as mounted: isSharingRef = useRef(false) (App.jsx:38), the
\* share button as rendered (App.jsx:641-656), no call of handleSharePdf.
NoShare == [isSharing |-> FALSE, btn |-> [textContent |-> "idle", disabled |-> FALSE],
            calls |-> << >>]

\* No request is being handled and no resolver call is pending.
RelayInit ==
  /\ rev \in Revisions
  /\ req = NoRequest
  /\ pc = "idle"
  /\ res = NewRes
  /\ fetched = << >>
  /\ upstream = "none"
  /\ response = << >>
  /\ caught = << >>
  /\ resolved = NotResolved
  /\ now = 0
  /\ imageCache = NoCache
  /\ tasks = << >>
  /\ batch = NoBatch
  /\ hidden = FALSE
  /\ images = << >>
  /\ sessions = << >>
  /\ refreshes = << >>
  /\ cleaned = NoCleanup
  /\ store = NoStore
  /\ share = NoShare

\* The relay is idle and a page is about to resolve an image reference.
ResolverInit ==
  /\ rev \in Revisions
  /\ req = NoRequest
  /\ pc = "idle"
  /\ res = NewRes
  /\ fetched = << >>
  /\ upstream = "none"
  /\ response = << >>
  /\ caught = << >>
  /\ resolved \in ResolverCalls
  /\ now = 0
  /\ imageCache = NoCache
  /\ tasks = << >>
  /\ batch = NoBatch
  /\ hidden = FALSE
  /\ images = << >>
  /\ sessions = << >>
  /\ refreshes = << >>
  /\ cleaned = NoCleanup
  /\ store = NoStore
  /\ share = NoShare

(***************************************************************************)
(* Relay actions                                                           *)
(***************************************************************************)

\* The runtime invokes the handler on a request; the handler runs up to its
\* first await or to its response.
Request(request) ==
  /\ pc = "idle"
  /\ \E out \in {handlerEntry(rev, request)} :
         /\ req' = request
         /\ res' = out.res
         /\ fetched' = out.fetch
         /\ caught' = out.caught
         /\ pc' = IF out.fetch = << >> THEN "done" ELSE "fetching"
         /\ upstream' = IF out.fetch = << >> THEN "none" ELSE "pending"
  /\ response' = << >>
  /\ UNCHANGED << rev, resolved, loaderVars, pageVars >>

\* The upstream stops answering; no revision arms a timer or passes an
\* abort signal to fetch(), so nothing wakes the handler.
UpstreamStalls ==
  /\ upstream \in {"pending", "streaming"}
  /\ upstream' = "silent"
  /\ UNCHANGED << rev, req, pc, res, fetched, response, caught, resolved, loaderVars, pageVars >>

\* fetch() resolves with the upstream's status line and headers.
FetchResolves(resp) ==
  /\ pc = "fetching"
  /\ upstream = "pending"
  /\ \E out \in {handlerOnResponse(rev, res, resp)} :
         /\ res' = out.res
         /\ pc' = IF out.readBody THEN "reading" ELSE "done"
         /\ upstream' = IF out.readBody THEN "streaming" ELSE "closed"
  /\ response' = << resp >>
  /\ UNCHANGED << rev, req, fetched, caught, resolved, loaderVars, pageVars >>

\* fetch() rejects.
FetchRejects(error) ==
  /\ pc = "fetching"
  /\ upstream = "pending"
  /\ res' = handlerCatch(rev, res, error)
  /\ caught' = << error >>
  /\ pc' = "done"
  /\ upstream' = "closed"
  /\ UNCHANGED << rev, req, fetched, response, resolved, loaderVars, pageVars >>

\* response.arrayBuffer() resolves with the whole body.
BodyResolves ==
  /\ pc = "reading"
  /\ upstream = "streaming"
  /\ res' = handlerOnBody(rev, res, response[1], response[1].body)
  /\ pc' = "done"
  /\ upstream' = "closed"
  /\ UNCHANGED << rev, req, fetched, response, caught, resolved, loaderVars, pageVars >>

\* response.arrayBuffer() rejects.
BodyRejects(error) ==
  /\ pc = "reading"
  /\ upstream = "streaming"
  /\ res' = handlerCatch(rev, res, error)
  /\ caught' = << error >>
  /\ pc' = "done"
  /\ upstream' = "closed"
  /\ UNCHANGED << rev, req, fetched, response, resolved, loaderVars, pageVars >>

\* The invocation is over; the runtime hands the next request a fresh
\* request and response object.
InvocationEnds ==
  /\ pc = "done"
  /\ req' = NoRequest
  /\ pc' = "idle"
  /\ res' = NewRes
  /\ fetched' = << >>
  /\ upstream' = "none"
  /\ response' = << >>
  /\ caught' = << >>
  /\ UNCHANGED << rev, resolved, loaderVars, pageVars >>

RelayNext ==
  \/ \E request \in Requests : Request(request)
  \/ UpstreamStalls
  \/ \E resp \in UpstreamResponses : FetchResolves(resp)
  \/ \E error \in FetchErrors : FetchRejects(error)
  \/ BodyResolves
  \/ \E error \in BodyErrors : BodyRejects(error)
  \/ InvocationEnds

SpecRelay == RelayInit /\ [][RelayNext]_vars

\* The event loop runs a continuation once its promise has settled, and an
\* upstream that has not gone silent settles the promise.
FairSpecRelay ==
  /\ SpecRelay
  /\ WF_vars((\E resp \in UpstreamResponses : FetchResolves(resp))
             \/ (\E error \in FetchErrors : FetchRejects(error)))
  /\ WF_vars(BodyResolves \/ (\E error \in BodyErrors : BodyRejects(error)))

(***************************************************************************)
(* Resolver actions                                                        *)
(***************************************************************************)

ResolveCors ==
  /\ resolved.fn = "getCorsSafeImageUrl"
  /\ resolved.out = Pending
  /\ resolved' = [resolved EXCEPT !.out =
                    getCorsSafeImageUrl(resolved.ref, resolved.nodeEnv, resolved.location)]
  /\ UNCHANGED << relayVars, loaderVars, pageVars >>

ResolveSafe ==
  /\ resolved.fn = "safeImgSrc"
  /\ resolved.out = Pending
  /\ resolved' = [resolved EXCEPT !.out =
                    safeImgSrc(resolved.ref, resolved.dev, resolved.vercel,
                               resolved.location, resolved.now)]
  /\ UNCHANGED << relayVars, loaderVars, pageVars >>

ResolverNext == ResolveCors \/ ResolveSafe

SpecResolver == ResolverInit /\ [][ResolverNext]_vars

(***************************************************************************)
(* Platform functions of the image loaders                                 *)
(***************************************************************************)

\* Number.prototype.toString of a non-negative integer
RECURSIVE DecString(_)
DecString(n) ==
  IF n < 10 THEN << 48 + n >> ELSE DecString(n \div 10) \o << 48 + (n % 10) >>

\* The base64 character of a 6-bit value
Base64Char(v) ==
  IF v < 26 THEN 65 + v
  ELSE IF v < 52 THEN 97 + (v - 26)
  ELSE IF v < 62 THEN 48 + (v - 52)
  ELSE IF v = 62 THEN 43
  ELSE 47

\* The four characters for the bytes b1, b2, b3 of which n are present
Base64Group(b1, b2, b3, n) ==
  << Base64Char(b1 \div 4),
     Base64Char((b1 % 4) * 16 + (b2 \div 16)),
     IF n < 2 THEN 61 ELSE Base64Char((b2 % 16) * 4 + (b3 \div 64)),
     IF n < 3 THEN 61 ELSE Base64Char(b3 % 64) >>

ByteAt(bytes, i) == IF i <= Len(bytes) THEN bytes[i] ELSE 0

Base64(bytes) ==
  Concat([g \in 1..((Len(bytes) + 2) \div 3) |->
            Base64Group(bytes[3 * g - 2], ByteAt(bytes, 3 * g - 1), ByteAt(bytes, 3 * g),
                        Len(bytes) - 3 * (g - 1))],
         1, (Len(bytes) + 2) \div 3)

\* A Blob: its bytes and its type
Blob(bytes, type) == [bytes |-> bytes, type |-> type]

\* FileReader.readAsDataURL(blob): reader.result
readAsDataURL(blob) ==
  S(<<"d","a","t","a",":">>)
  \o (IF blob.type = << >>
      THEN S(<<"a","p","p","l","i","c","a","t","i","o","n","/","o","c","t","e","t","-","s","t","r","e","a","m">>)
      ELSE blob.type)
  \o S(<<";","b","a","s","e","6","4",",">>)
  \o Base64(blob.bytes)

\* params.delete(name)
ParamsDelete(params, name) ==
  LET Other(pair) == pair[1] # name
  IN  SelectSeq(params, Other)

RECURSIVE ParamsDeleteAll(_, _)
ParamsDeleteAll(params, names) ==
  IF names = << >> THEN params
  ELSE ParamsDeleteAll(ParamsDelete(params, Head(names)), Tail(names))

\* urlObj.search = value
SetSearch(urlObj, value) ==
  [urlObj EXCEPT !.search =
     IF value = << >> THEN << >>
     ELSE EscapeIn((IF value[1] = 63 THEN << >> ELSE << 63 >>) \o value,
                   QueryEscaped(Sub(urlObj.protocol, 1, Len(urlObj.protocol) - 1)
                                \in SpecialSchemes))]

\* t is a stripped input without a scheme of its own, resolved against a
\* base that is an origin (its path is "/").
UrlResolved(t, origin) ==
  IF Len(t) >= 2 /\ t[1] \in {47, 92} /\ t[2] \in {47, 92}
  THEN ParseURL(Sub(origin, 1, FirstIn(origin, 1, {58})) \o t)
  ELSE IF t # << >> /\ t[1] \in {47, 92} THEN ParseURL(origin \o t)
  ELSE ParseURL(origin \o << 47 >> \o t)

\* t is the stripped input and colon is where its scheme ends, 0 when it
\* has none.  A special scheme equal to the base's, not followed by a
\* slash, is a relative reference.
UrlAgainstBase(t, colon, origin) ==
  IF colon = 0 THEN UrlResolved(t, origin)
  ELSE IF /\ ToLower(Sub(t, 1, colon)) = Sub(origin, 1, FirstIn(origin, 1, {58}))
          /\ ToLower(Sub(t, 1, colon - 1)) \in SpecialSchemes
          /\ ~(colon < Len(t) /\ t[colon + 1] \in {47, 92})
    THEN UrlResolved(Sub(t, colon + 1, Len(t)), origin)
  ELSE ParseURL(t)

\* new URL(input, base) for a base that is window.location.origin
ParseURLBase(input, origin) ==
  UrlAgainstBase(StripUrl(input), SchemeEnd(StripUrl(input)), origin)

(***************************************************************************)
(* The retry loops: loadImageAsDataUrl and loadImageDirect                 *)
(*                                                                         *)
(* The repository holds three revisions of loadImageAsDataUrl:             *)
(*   1  src/src/utils/imageUtils.js:12-93                                  *)
(*   2  src/src/utils/imageUtils.js:207-339                                *)
(*   3  src/unnamed/part_002:12-122                                        *)
(* and loadImageDirect, src/src/utils/corsUtils.js:98-160, written "D".    *)
(***************************************************************************)

LoopRevisions == {"1", "2", "3", "D"}

\* The result of an asynchronous call
Unsettled       == [state |-> "pending"]
Fulfilled(v)    == [state |-> "returned", value |-> v]
Rejected(msg)   == [state |-> "thrown", value |-> Str(msg)]

\* Math.random().toString(36).substring(7)
RandomTokens == { S(<<"k","3","x","9","f">>) }

\* `${url}?t=${Date.now()}&r=${random}`, with the separator given
FallbackBust(url, separator, time, random) ==
  url \o separator \o S(<<"t","=">>) \o DecString(time) \o S(<<"&","r","=">>) \o random

\* Revision 1: cache busting in production only (imageUtils.js:25-36)
loadImageAsDataUrl1Busted(url, urlObj, time) ==
  IF ~urlObj.ok THEN url
  ELSE Href(SetSearch(urlObj.val,
         ParamsToString(ParamsSet(URLSearchParams(urlObj.val.search),
                                  S(<<"_","t">>), DecString(time)))))

loadImageAsDataUrl1Target(url, options, nodeEnv, time) ==
  IF options.cacheBust /\ nodeEnv = "production"
  THEN loadImageAsDataUrl1Busted(url, ParseURL(url), time)
  ELSE url

\* The cache-busting parameters of revisions 2 and 3
BustParams(params, time, random, forceRefresh) ==
  (IF forceRefresh
   THEN ParamsSet(ParamsSet(ParamsSet(params, S(<<"_","t">>), DecString(time)),
                            S(<<"_","r">>), random),
                  S(<<"_","f">>), S(<<"1">>))
   ELSE ParamsSet(ParamsSet(params, S(<<"_","t">>), DecString(time)),
                  S(<<"_","r">>), random))

\* Revision 2, once the URL is parsed and its query rewritten
\* (imageUtils.js:253-264)
loadImageAsDataUrl2Routed(urlObj, nodeEnv) ==
  IF Includes(urlObj.hostname, storageHostname) /\ nodeEnv = "development"
  THEN DevRoute(urlObj)
  ELSE Href(urlObj)

\* Revision 2 (imageUtils.js:238-269); urlObj is what new URL gave
loadImageAsDataUrl2Busted(url, urlObj, options, nodeEnv, time, random) ==
  IF ~urlObj.ok
  THEN FallbackBust(url, IF Includes(url, << 63 >>) THEN << 38 >> ELSE << 63 >>,
                    time, random)
  ELSE loadImageAsDataUrl2Routed(
         SetSearch(urlObj.val,
           ParamsToString(BustParams(
             ParamsDeleteAll(URLSearchParams(urlObj.val.search),
                             << S(<<"_","t">>), S(<<"_","r">>), S(<<"_","f">>),
                                S(<<"_","v">>), S(<<"t">>), S(<<"r">>) >>),
             time, random, options.forceRefresh))),
         nodeEnv)

\* Revision 2 (imageUtils.js:221-270)
loadImageAsDataUrl2Target(url, options, nodeEnv, location, time, random) ==
  IF ~options.cacheBust THEN url
  ELSE IF Trim(url) = << >>
    THEN loadImageAsDataUrl2Busted(url, Thrown("Invalid or empty URL"),
                                   options, nodeEnv, time, random)
  ELSE IF StartsWith(url, S(<<"h","t","t","p">>))
    THEN loadImageAsDataUrl2Busted(url, ParseURL(Trim(url)),
                                   options, nodeEnv, time, random)
  ELSE loadImageAsDataUrl2Busted(url, ParseURLBase(Trim(url), location.origin),
                                 options, nodeEnv, time, random)

\* Revision 3, once the URL is parsed and its query rewritten
\* (part_002:50-59)
loadImageAsDataUrl3Routed(urlObj, nodeEnv) ==
  IF ~Includes(urlObj.hostname, storageHostname) THEN Href(urlObj)
  ELSE IF nodeEnv = "production"
    THEN S(<<"/","a","p","i","/","p","r","o","x","y">>) \o urlObj.pathname \o urlObj.search
  ELSE DevRoute(urlObj)

\* Revision 3 (part_002:28-64)
loadImageAsDataUrl3Busted(url, urlObj, options, nodeEnv, time, random) ==
  IF ~urlObj.ok THEN FallbackBust(url, << 63 >>, time, random)
  ELSE loadImageAsDataUrl3Routed(
         SetSearch(urlObj.val,
           ParamsToString(ParamsSet(
             BustParams(URLSearchParams(urlObj.val.search), time, random,
                        options.forceRefresh),
             S(<<"_","v">>), S(<<"2">>)))),
         nodeEnv)

loadImageAsDataUrl3Target(url, options, nodeEnv, time, random) ==
  IF options.cacheBust
  THEN loadImageAsDataUrl3Busted(url, ParseURL(url), options, nodeEnv, time, random)
  ELSE url

\* The URL the retry loop of revision v fetches
TargetUrl(v, url, options, nodeEnv, location, time, random) ==
  IF v = "1" THEN loadImageAsDataUrl1Target(url, options, nodeEnv, time)
  ELSE IF v = "2"
    THEN loadImageAsDataUrl2Target(url, options, nodeEnv, location, time, random)
  ELSE IF v = "3" THEN loadImageAsDataUrl3Target(url, options, nodeEnv, time, random)
  ELSE url

\* What the network does with one retrieval: nothing before the timer
\* fires, a transport failure, a cross-origin answer the page may not
\* read, or a readable answer.
NoAnswer       == [kind |-> "timeout", status |-> 0, statusText |-> << >>,
                   type |-> << >>, bytes |-> << >>]
NetworkFailure == [kind |-> "network", status |-> 0, statusText |-> << >>,
                   type |-> << >>, bytes |-> << >>]
Unreadable     == [kind |-> "opaque", status |-> 0, statusText |-> << >>,
                   type |-> << >>, bytes |-> << >>]
Answer(code, text, type, bytes) ==
  [kind |-> "http", status |-> code, statusText |-> text, type |-> type, bytes |-> bytes]
\* A readable answer whose body the FileReader fails to read
Garbled(code, text, type, bytes) ==
  [kind |-> "garbled", status |-> code, statusText |-> text, type |-> type, bytes |-> bytes]

FailedToFetch == S(<<"F","a","i","l","e","d"," ","t","o"," ","f","e","t","c","h">>)
AbortMessage  == S(<<"T","h","e"," ","u","s","e","r"," ","a","b","o","r","t","e","d"," ","a"," ","r","e","q","u","e","s","t",".">>)

\* fetch(url, {mode: 'cors'}) and fetch(url, {mode: 'no-cors'})
FetchMode(v) == IF v \in {"1", "3"} THEN "cors" ELSE "no-cors"

\* The Response fetch resolves with, for an outcome that is an answer
Response(outcome) ==
  [type       |-> IF outcome.kind = "opaque" THEN "opaque" ELSE "cors",
   ok         |-> outcome.kind \in {"http", "garbled"} /\ outcome.status \in 200..299,
   status     |-> outcome.status,
   statusText |-> outcome.statusText,
   blob       |-> Blob(outcome.bytes, outcome.type)]

\* fetch rejects: the transport failed, or the mode asks for a readable
\* answer and the answer is not readable.
FetchFails(mode, outcome) ==
  outcome.kind = "network" \/ (mode = "cors" /\ outcome.kind = "opaque")

\* The timers a task has armed: setTimeout(..., ms)
Timer(purpose, ms) == [purpose |-> purpose, ms |-> ms, state |-> "armed"]

\* clearTimeout of the last timer armed
ClearLast(timers) == [timers EXCEPT ![Len(timers)].state = "cleared"]
FireLast(timers)  == [timers EXCEPT ![Len(timers)].state = "fired"]

RECURSIVE Pow2(_)
Pow2(n) == IF n = 0 THEN 1 ELSE 2 * Pow2(n - 1)

\* The wait before the next attempt, were it the same after every attempt
BackoffFlat(attempt) == 1000

\* `Math.pow(2, attempt) * 1000`, the wait before the next attempt
\* (imageUtils.js:88, 334; part_002:117; corsUtils.js:155)
Backoff(attempt) == Pow2(attempt) * 1000

\* The loop returned or threw: the task is back in its caller.
LoopEnds(t, result) == [t EXCEPT !.pc = "caller", !.inner = result]

\* The loop body up to `await fetch(...)`, or the code after the loop
\* (imageUtils.js:38-55 and 92, 272-289 and 338; part_002:67-84 and 121;
\* corsUtils.js:101-117 and 159)
LoopTop(t) ==
  IF t.attempt <= t.retries
  THEN [t EXCEPT !.pc = "fetch",
                 !.fetched = Append(@, t.targetUrl),
                 !.timers = Append(@, Timer("abort", t.timeout))]
  ELSE IF t.v = "D"
    THEN LoopEnds(t, Rejected(S(<<"A","l","l"," ","r","e","t","r","y"," ","a","t","t","e","m","p","t","s"," ","f","a","i","l","e","d">>)))
  ELSE LoopEnds(t, Fulfilled(Null))

\* loadImageWithCanvas(url) up to `img.src = url` (imageUtils.js:346-381)
loadImageWithCanvas(t) ==
  [t EXCEPT !.pc = "canvas",
            !.timers = Append(@, Timer("canvas", 10000))]

\* The catch block of the loop (imageUtils.js:79-89, 319-335;
\* part_002:108-118; corsUtils.js:147-156)
LoopCatch(t, message) ==
  IF t.attempt = t.retries
  THEN (IF t.v = "2" THEN loadImageWithCanvas([t EXCEPT !.error = << message >>])
        ELSE IF t.v = "D"
          THEN LoopEnds([t EXCEPT !.error = << message >>],
                 Rejected(S(<<"F","a","i","l","e","d"," ","t","o"," ","l","o","a","d"," ","i","m","a","g","e"," ","a","f","t","e","r"," ">>)
                          \o DecString(t.retries)
                          \o S(<<" ","a","t","t","e","m","p","t","s",":"," ">>)
                          \o message))
        ELSE LoopEnds([t EXCEPT !.error = << message >>], Fulfilled(Null)))
  ELSE [t EXCEPT !.pc = "backoff",
                 !.error = << message >>,
                 !.waits = Append(@, Backoff(t.attempt)),
                 !.timers = Append(@, Timer("backoff", Backoff(t.attempt)))]

\* After `await fetch(...)` resolved (imageUtils.js:57-63, 291-303;
\* part_002:86-92; corsUtils.js:119-131); t's timer is already cleared
LoopOnResponse(t, resp) ==
  IF FetchMode(t.v) = "no-cors" /\ resp.type = "opaque"
  THEN (IF t.v = "2" THEN LoopEnds(t, Fulfilled(Null))
        ELSE LoopCatch(t, S(<<"O","p","a","q","u","e"," ","r","e","s","p","o","n","s","e"," ","-"," ","C","O","R","S"," ","b","l","o","c","k","e","d">>)))
  ELSE IF ~resp.ok
    THEN LoopCatch(t, S(<<"H","T","T","P"," ">>) \o DecString(resp.status)
                      \o S(<<":"," ">>) \o resp.statusText)
  ELSE [t EXCEPT !.pc = "blob", !.blob = resp.blob]

\* `await fetch(...)` settles with the outcome the network has for this
\* retrieval.
LoopOnFetch(t, outcome) ==
  IF FetchFails(FetchMode(t.v), outcome) THEN LoopCatch(t, FailedToFetch)
  ELSE LoopOnResponse([t EXCEPT !.timers = ClearLast(@)], Response(outcome))

\* The abort timer fires while fetch is pending: controller.abort() makes
\* fetch reject.
LoopOnAbort(t) ==
  LoopCatch([t EXCEPT !.timers = FireLast(@)], AbortMessage)

\* After `await response.blob()` (imageUtils.js:63-74, 303-314;
\* part_002:92-103; corsUtils.js:131-142)
LoopOnBlob(t) ==
  IF Len(t.blob.bytes) = 0
  THEN LoopCatch(t, S(<<"E","m","p","t","y"," ","i","m","a","g","e"," ","b","l","o","b"," ","r","e","c","e","i","v","e","d">>))
  ELSE [t EXCEPT !.pc = "reader"]

\* reader.onload fired, were reader.result lost
LoopOnLoadNull(t) == LoopEnds(t, Fulfilled(Null))

\* reader.onload fired (imageUtils.js:76-77, 316-317; part_002:105-106;
\* corsUtils.js:144-145)
LoopOnLoad(t) == LoopEnds(t, Fulfilled(Str(readAsDataURL(t.blob))))

\* reader.onerror fired
LoopOnReaderError(t) ==
  LoopCatch(t, S(<<"F","a","i","l","e","d"," ","t","o"," ","r","e","a","d"," ","i","m","a","g","e"," ","b","l","o","b">>))

\* The backoff timer fired: the next iteration of the loop
LoopOnBackoff(t) ==
  LoopTop([t EXCEPT !.attempt = @ + 1, !.timers = FireLast(@)])

\* canvas.toDataURL('image/png') of the image drawn: a PNG of its pixels
CanvasDataUrl ==
  S(<<"d","a","t","a",":","i","m","a","g","e","/","p","n","g",";","b","a","s","e","6","4",",">>)
  \o Base64(<< 137, 80, 78, 71 >>)

\* loadImageWithCanvas settles: img.onload with a canvas that can be read,
\* img.onload with a tainted canvas, img.onerror, or its 10 s timer; the
\* catch of imageUtils.js:327-330 turns a rejection into null.  The timer
\* of loadImageWithCanvas is never cleared.
LoopOnCanvas(t, outcome) ==
  IF outcome = "drawn" THEN LoopEnds(t, Fulfilled(Str(CanvasDataUrl)))
  ELSE IF outcome = "expired"
    THEN LoopEnds([t EXCEPT !.timers = FireLast(@)], Fulfilled(Null))
  ELSE LoopEnds(t, Fulfilled(Null))

(***************************************************************************)
(* Loads of one reference                                                  *)
(*                                                                         *)
(* loadImageAsDataUrl (revisions 1, 2, 3 above), loadImageWithCorsFallback *)
(* (corsUtils.js:59-90) and smartRefreshImage, of which the repository     *)
(* holds two revisions:                                                    *)
(*   1  src/src/utils/imageUtils.js:619-667, over loadImageAsDataUrl 2     *)
(*   2  src/unnamed/part_002:305-347, over loadImageAsDataUrl 3            *)
(***************************************************************************)

\* A call of fn in revision rev, before its first statement.  net holds
\* what the network may do with a retrieval of the call, and plan[k] is
\* what it did with the k-th.
NewTask(fn, revision, url, options, nodeEnv, location, net) ==
  [fn |-> fn, revision |-> revision, url |-> url, options |-> options,
   nodeEnv |-> nodeEnv, location |-> location, net |-> net, plan |-> << >>,
   pc |-> "called", v |-> "none", stage |-> "none", key |-> << >>,
   targetUrl |-> << >>, retries |-> 0, timeout |-> 0, attempt |-> 0,
   fetched |-> << >>, timers |-> << >>, waits |-> << >>, error |-> << >>,
   blob |-> Blob(<< >>, << >>), inner |-> Unsettled, result |-> Unsettled,
   hit |-> << >>, startedAt |-> 0]

\* The options of a call that asks for so many attempts, with the defaults
\* of its function filled in (imageUtils.js:13-17, 208-213, 620-624;
\* part_002:13-18, 306-310; corsUtils.js:60-64)
Options(fn, retries) ==
  [timeout |-> IF fn = "loadImageWithCorsFallback" THEN 15000 ELSE 10000,
   retries |-> retries,
   cacheBust |-> TRUE, forceRefresh |-> FALSE,
   useProxy |-> TRUE, useCache |-> TRUE, batchSize |-> Undefined]

\* The call returns or throws.
Settle(t, result) == [t EXCEPT !.pc = "done", !.result = result]

\* A call of the retry loop v for url: from its first statement to its
\* first await.
LoopCall(t, v, url, retries, timeout, options, time, random) ==
  LoopTop([t EXCEPT !.v = v,
                    !.targetUrl = TargetUrl(v, url, options, t.nodeEnv, t.location,
                                            time, random),
                    !.retries = retries,
                    !.timeout = timeout,
                    !.attempt = 1])

\* `typeof url !== 'string'` alone
InvalidReferenceByType(url) == url.type # "string"

\* `!url || typeof url !== 'string'`
InvalidReference(url) == ~Truthy(url) \/ url.type # "string"

\* loadImageAsDataUrl(url, options) up to its first await
\* (imageUtils.js:12-55, 207-289; part_002:12-84)
loadImageAsDataUrl(t, time, random) ==
  IF InvalidReference(t.url) THEN Settle(t, Fulfilled(Null))
  ELSE LoopCall(t, t.revision, t.url.val, t.options.retries, t.options.timeout,
                t.options, time, random)

\* loadImageWithCorsFallback from `const corsSafeUrl = ...` on
\* (corsUtils.js:79-89)
loadImageWithCorsFallbackProxy(t, corsSafeUrl, time, random) ==
  IF Truthy(corsSafeUrl) /\ corsSafeUrl # t.url
  THEN LoopCall([t EXCEPT !.stage = "proxy"], "D", corsSafeUrl.val,
                t.options.retries, t.options.timeout, t.options, time, random)
  ELSE Settle(t, Fulfilled(Null))

\* loadImageWithCorsFallback(url, options) up to its first await
\* (corsUtils.js:59-83)
loadImageWithCorsFallback(t, time, random) ==
  IF InvalidReference(t.url) THEN Settle(t, Fulfilled(Null))
  ELSE IF ~t.options.useProxy
    THEN LoopCall([t EXCEPT !.stage = "direct"], "D", t.url.val,
                  t.options.retries, t.options.timeout, t.options, time, random)
  ELSE loadImageWithCorsFallbackProxy(
         t, getCorsSafeImageUrl(t.url, t.nodeEnv, t.location), time, random)

\* Map.prototype.get and Map.prototype.set on the entries of a Map, kept in
\* insertion order as pairs << key, value >>
MapHas(entries, key) == \E k \in 1..Len(entries) : entries[k][1] = key
MapGet(entries, key) ==
  entries[CHOOSE k \in 1..Len(entries) : entries[k][1] = key][2]
MapSet(entries, key, value) ==
  IF MapHas(entries, key)
  THEN [k \in 1..Len(entries) |->
          IF entries[k][1] = key THEN << key, value >> ELSE entries[k]]
  ELSE Append(entries, << key, value >>)

\* The freshness window of smartRefreshImage, in milliseconds
FreshnessWindow == 300000

\* `cached` alone
IsCached(cache, key, time) == MapHas(cache.entries, key)

\* `cached && Date.now() - cached.timestamp < 300000`
IsFresh(cache, key, time) ==
  /\ MapHas(cache.entries, key)
  /\ time - MapGet(cache.entries, key).timestamp < FreshnessWindow

\* The key smartRefreshImage files a reference under: url.split('?')[0]
\* in revision 1 (imageUtils.js:632), url itself in revision 2
\* (part_002:318)
CacheKey(revision, url) == IF revision = "1" THEN Split(url, 63)[1] ELSE url

\* smartRefreshImage(url, options) up to its first await, or to its
\* return (imageUtils.js:619-654; part_002:305-336)
smartRefreshImage(t, cache, time, random) ==
  IF InvalidReference(t.url) THEN Settle(t, Fulfilled(Null))
  ELSE IF /\ t.options.useCache
          /\ cache.created
          /\ IsFresh(cache, CacheKey(t.revision, t.url.val), time)
    THEN Settle([t EXCEPT !.key = CacheKey(t.revision, t.url.val),
                          !.hit = << MapGet(cache.entries, CacheKey(t.revision, t.url.val)) >>],
                Fulfilled(Str(MapGet(cache.entries,
                                     CacheKey(t.revision, t.url.val)).dataUrl)))
  ELSE LoopCall([t EXCEPT !.key = CacheKey(t.revision, t.url.val)],
                IF t.revision = "1" THEN "2" ELSE "3",
                CacheKey(t.revision, t.url.val),
                t.options.retries, t.options.timeout,
                [t.options EXCEPT !.cacheBust = TRUE, !.forceRefresh = TRUE],
                time, random)

\* window.imageCache after a call of smartRefreshImage passed
\* `if (!window.imageCache) window.imageCache = new Map()`
CacheAfterCall(t, cache) ==
  IF t.fn = "smartRefreshImage" /\ t.pc # "done" /\ ~cache.created
  THEN [created |-> TRUE, entries |-> << >>]
  ELSE cache

\* normalizeImageUrl once the reference is parsed: revision 1
\* (imageUtils.js:144-165, the same text as part_002:173-195) and
\* revision 2 (imageUtils.js:461-500)
normalizeImageUrl1Parsed(urlObj, nodeEnv, time) ==
  IF ~urlObj.ok THEN Null
  ELSE IF urlObj.val.protocol \notin {S(<<"h","t","t","p",":">>), S(<<"h","t","t","p","s",":">>)}
    THEN Null
  ELSE IF nodeEnv = "production"
    THEN Str(Href(SetSearch(urlObj.val,
           ParamsToString(ParamsSet(URLSearchParams(urlObj.val.search),
                                    S(<<"_","t">>), DecString(time))))))
  ELSE Str(Href(urlObj.val))

normalizeImageUrl2Parsed(urlObj, nodeEnv, time) ==
  IF ~urlObj.ok THEN Null
  ELSE IF urlObj.val.protocol \notin {S(<<"h","t","t","p",":">>), S(<<"h","t","t","p","s",":">>)}
    THEN Null
  ELSE IF Includes(urlObj.val.hostname, storageHostname)
    THEN (IF nodeEnv = "development" THEN Str(DevRoute(urlObj.val))
          ELSE Str(Href(urlObj.val)))
  ELSE normalizeImageUrl1Parsed(urlObj, nodeEnv, time)

\* normalizeImageUrl(url) (imageUtils.js:134-166, 451-501; part_002:163-196)
normalizeImageUrl(revision, url, nodeEnv, location, time) ==
  IF InvalidReference(url) THEN Null
  ELSE IF Trim(url.val) = << >> THEN Null
  ELSE IF revision = "1"
    THEN normalizeImageUrl1Parsed(ParseURL(Trim(url.val)), nodeEnv, time)
  ELSE IF StartsWith(Trim(url.val), S(<<"h","t","t","p">>))
    THEN normalizeImageUrl2Parsed(ParseURL(Trim(url.val)), nodeEnv, time)
  ELSE normalizeImageUrl2Parsed(ParseURLBase(Trim(url.val), location.origin),
                                nodeEnv, time)

\* The call of t.fn, up to its first await or to its return
Start(t, cache, time, random) ==
  IF t.fn = "loadImageAsDataUrl" THEN loadImageAsDataUrl(t, time, random)
  ELSE IF t.fn = "loadImageWithCorsFallback"
    THEN loadImageWithCorsFallback(t, time, random)
  ELSE IF t.fn = "normalizeImageUrl"
    THEN Settle(t, Fulfilled(normalizeImageUrl(t.revision, t.url, t.nodeEnv,
                                               t.location, time)))
  ELSE IF t.fn = "getCorsSafeImageUrl"
    THEN Settle(t, Fulfilled(getCorsSafeImageUrl(t.url, t.nodeEnv, t.location)))
  ELSE smartRefreshImage(t, cache, time, random)

\* The retry loop of t came back to the function that called it: the rest
\* of that function, up to its next await or to its return
\* (corsUtils.js:72-89; imageUtils.js:656-666; part_002:338-346)
Resume(t, time, random) ==
  IF t.pc # "caller" THEN t
  ELSE IF t.fn = "loadImageWithCorsFallback"
    THEN (IF t.inner.state = "returned" THEN Settle(t, t.inner)
          ELSE IF t.stage = "direct"
            THEN loadImageWithCorsFallbackProxy(
                   t, getCorsSafeImageUrl(t.url, t.nodeEnv, t.location), time, random)
          ELSE Settle(t, Fulfilled(Null)))
  ELSE Settle(t, t.inner)

\* window.imageCache after t settled, were the result stored whatever it is
CacheAfterLoadAlways(t, cache, time) ==
  IF /\ t.fn = "smartRefreshImage"
     /\ t.pc = "done"
     /\ t.inner.state = "returned"
  THEN [cache EXCEPT !.entries =
          MapSet(@, t.key, [dataUrl |-> IF Truthy(t.inner.value)
                                        THEN t.inner.value.val ELSE << >>,
                            timestamp |-> time])]
  ELSE cache

\* window.imageCache after t settled: smartRefreshImage stores what it
\* loaded (imageUtils.js:656-661; part_002:338-343)
CacheAfterLoad(t, cache, time) ==
  IF /\ t.fn = "smartRefreshImage"
     /\ t.pc = "done"
     /\ t.inner.state = "returned"
     /\ Truthy(t.inner.value)
  THEN [cache EXCEPT !.entries =
          MapSet(@, t.key, [dataUrl |-> t.inner.value.val, timestamp |-> time])]
  ELSE cache

(***************************************************************************)
(* Batch loaders                                                           *)
(*                                                                         *)
(* preloadImages, of which the repository holds three revisions:           *)
(*   1  src/src/utils/imageUtils.js:101-127, over loadImageAsDataUrl 1     *)
(*   2  src/src/utils/imageUtils.js:390-444, over loadImageAsDataUrl 2     *)
(*   3  src/unnamed/part_002:130-156, over loadImageAsDataUrl 3            *)
(* batchLoadImagesWithCors (corsUtils.js:168-219), optimizedImageLoader    *)
(* (corsUtils.js:397-462) and processBatch (corsUtils.js:354-374).         *)
(***************************************************************************)

\* [...new Set(items)]
Dedup(items) ==
  LET IsFirst(k) == \A j \in 1..(k - 1) : items[j] # items[k]
      firsts == SelectSeq(Indices(Len(items)), IsFirst)
  IN  [k \in 1..Len(firsts) |-> items[firsts[k]]]

\* The references taken as one slice, whatever the size
SlicesWhole(items, size) == IF items = << >> THEN << >> ELSE << items >>

\* The slices items.slice(i, i + size) for i = 0, size, 2 size, ...
Slices(items, size) ==
  [g \in 1..((Len(items) + size - 1) \div size) |->
     Sub(items, (g - 1) * size + 1, Min({g * size, Len(items)}))]

\* The references a loader keeps of its argument (imageUtils.js:394;
\* corsUtils.js:170); the other loaders take them all
ValidUrls(fn, revision, urls) ==
  LET IsString(url) == Truthy(url) /\ url.type = "string"
      IsText(url) == IsString(url) /\ Trim(url.val) # << >>
  IN  IF fn = "preloadImages" /\ revision = "2" THEN Dedup(SelectSeq(urls, IsText))
      ELSE IF fn = "batchLoadImagesWithCors" THEN Dedup(SelectSeq(urls, IsString))
      ELSE urls

\* `options.batchSize || n` and the defaults `batchSize = n`
\* (imageUtils.js:105, 402; part_002:134; corsUtils.js:179, 354, 399)
BatchSize(fn, revision, options) ==
  IF fn \in {"optimizedImageLoader", "processBatch"}
  THEN (IF options.batchSize = Undefined
        THEN (IF fn = "processBatch" THEN 5 ELSE 3)
        ELSE options.batchSize.num)
  ELSE IF Truthy(options.batchSize) THEN options.batchSize.num
  ELSE IF fn = "preloadImages" /\ revision \in {"1", "3"} THEN 3
  ELSE 2

\* The pause between two groups, in milliseconds (imageUtils.js:122, 436;
\* part_002:151; corsUtils.js:211, 354, 400)
BatchDelay(fn, revision) ==
  IF fn = "processBatch" THEN 100
  ELSE IF fn = "optimizedImageLoader" THEN 200
  ELSE IF fn = "preloadImages" /\ revision \in {"1", "3"} THEN 100
  ELSE 500

\* The function a loader calls for each reference and the options it
\* passes (imageUtils.js:114, 414-418; part_002:143; corsUtils.js:189-193)
ItemFn(fn) ==
  IF fn = "preloadImages" THEN "loadImageAsDataUrl"
  ELSE IF fn = "batchLoadImagesWithCors" THEN "loadImageWithCorsFallback"
  ELSE fn

ItemOptions(fn, revision, options) ==
  IF (fn = "preloadImages" /\ revision = "2") \/ fn = "batchLoadImagesWithCors"
  THEN [options EXCEPT !.timeout = 20000, !.retries = 2]
  ELSE options

\* createCache(maxSize).set(key, value) (corsUtils.js:314-320)
CacheSet(entries, maxSize, key, value) ==
  MapSet(IF Len(entries) >= maxSize /\ entries # << >> THEN Tail(entries)
         ELSE entries, key, value)

\* A call of a batch loader, before its first group starts.  net holds
\* what the network may do with a retrieval of the batch.
NewBatch(fn, revision, urls, options, nodeEnv, location, net) ==
  [fn |-> fn, revision |-> revision, urls |-> urls, options |-> options,
   nodeEnv |-> nodeEnv, location |-> location, net |-> net,
   valid |-> ValidUrls(fn, revision, urls),
   batchSize |-> BatchSize(fn, revision, options),
   groups |-> Slices(ValidUrls(fn, revision, urls), BatchSize(fn, revision, options)),
   group |-> 0, first |-> 0,
   results |-> << >>, cache |-> << >>, waits |-> << >>,
   pc |-> "called"]

\* optimizedImageLoader's closure for one reference, up to its first await
\* or to its return (corsUtils.js:421-434)
optimizedImageLoader(t, cache) ==
  IF MapHas(cache, t.url) /\ Truthy(MapGet(cache, t.url))
  THEN Settle([t EXCEPT !.hit = << MapGet(cache, t.url) >>], Fulfilled(Undefined))
  ELSE [t EXCEPT !.pc = "fetch", !.v = "O",
                 !.targetUrl = JsToString(t.url),
                 !.fetched = Append(@, JsToString(t.url))]

\* After its `await fetch(...)` (corsUtils.js:436-450): a rejection is
\* caught, an answer that is not ok ends the closure
optimizedOnFetch(t, outcome) ==
  IF FetchFails("cors", outcome)
  THEN Settle([t EXCEPT !.error = << FailedToFetch >>], Fulfilled(Null))
  ELSE IF Response(outcome).ok
    THEN [t EXCEPT !.pc = "blob", !.blob = Response(outcome).blob]
  ELSE Settle(t, Fulfilled(Undefined))

\* reader.onload fired (corsUtils.js:440-445)
optimizedOnLoad(t) == Settle(t, Fulfilled(Str(readAsDataURL(t.blob))))

\* processBatch's processor(item): an asynchronous function of the caller
processor(t) ==
  [t EXCEPT !.pc = "fetch", !.v = "P", !.fetched = Append(@, JsToString(t.url))]

processorSettles(t, outcome) ==
  IF outcome.kind = "http" /\ outcome.status \in 200..299
  THEN Settle(t, Fulfilled(Str(outcome.bytes)))
  ELSE Settle(t, Rejected(FailedToFetch))

\* The closure of the loader for the k-th reference of the batch, from its
\* call to its first await or to its return
StartItem(b, k, cache, time, random) ==
  IF b.fn = "optimizedImageLoader"
  THEN optimizedImageLoader(
         NewTask(b.fn, b.revision, b.valid[k], b.options, b.nodeEnv, b.location,
                 b.net), b.cache)
  ELSE IF b.fn = "processBatch"
    THEN processor(NewTask(b.fn, b.revision, b.valid[k], b.options, b.nodeEnv,
                           b.location, b.net))
  ELSE Start(NewTask(ItemFn(b.fn), b.revision, b.valid[k],
                     ItemOptions(b.fn, b.revision, b.options),
                     b.nodeEnv, b.location, b.net),
             cache, time, random)

\* What the closure of a loader does with the settled load of a reference:
\* results.set(url, ...) (imageUtils.js:115, 419, 428; part_002:144;
\* corsUtils.js:194, 203, 425, 444-445, 449); processBatch pushes its
\* results when the group has settled.
ItemRecorded(b, t) ==
  IF b.fn = "processBatch" THEN b
  ELSE IF b.fn = "optimizedImageLoader"
    THEN (IF t.hit # << >> THEN [b EXCEPT !.results = MapSet(@, t.url, t.hit[1])]
          ELSE IF t.result.value = Undefined THEN b
          ELSE IF t.result.value = Null
            THEN [b EXCEPT !.results = MapSet(@, t.url, Null)]
          ELSE [b EXCEPT !.results = MapSet(@, t.url, t.result.value),
                         !.cache = CacheSet(@, 20, t.url, t.result.value)])
  ELSE IF t.result.state = "returned"
    THEN [b EXCEPT !.results = MapSet(@, t.url, t.result.value)]
  ELSE IF b.fn = "preloadImages" /\ b.revision \in {"1", "3"} THEN b
  ELSE [b EXCEPT !.results = MapSet(@, t.url, Null)]

\* ItemRecorded for each of the tasks ts[from..to] that has settled
RECURSIVE ItemsRecorded(_, _, _, _)
ItemsRecorded(b, ts, from, to) ==
  IF from > to THEN b
  ELSE ItemsRecorded(IF ts[from].pc = "done" THEN ItemRecorded(b, ts[from]) ELSE b,
                     ts, from + 1, to)

\* results.push(...batchResults.map(...)) of processBatch
\* (corsUtils.js:363-365)
GroupPushed(b, ts) ==
  IF b.fn # "processBatch" THEN b
  ELSE [b EXCEPT !.results =
          @ \o [k \in 1..(Len(ts) - b.first + 1) |->
                  << ts[b.first + k - 1].url,
                     IF ts[b.first + k - 1].result.state = "returned"
                     THEN ts[b.first + k - 1].result.value ELSE Null >>]]

\* The loader going on as soon as one closure of the group has settled
GroupSettledAny(b, ts) ==
  IF \A i \in b.first..Len(ts) : ts[i].pc # "done" THEN b
  ELSE IF b.group < Len(b.groups)
    THEN [GroupPushed(b, ts) EXCEPT !.pc = "pausing",
                                    !.waits = Append(@, BatchDelay(b.fn, b.revision))]
  ELSE [GroupPushed(b, ts) EXCEPT !.pc = "done"]

\* Promise.allSettled of the group resolved, if every closure of the group
\* has settled: the loader pauses before the next group, or returns
\* (imageUtils.js:118-126, 432-443; part_002:147-155; corsUtils.js:207-218,
\* 359-373, 453-461)
GroupSettled(b, ts) ==
  IF \E i \in b.first..Len(ts) : ts[i].pc # "done" THEN b
  ELSE IF b.group < Len(b.groups)
    THEN [GroupPushed(b, ts) EXCEPT !.pc = "pausing",
                                    !.waits = Append(@, BatchDelay(b.fn, b.revision))]
  ELSE [GroupPushed(b, ts) EXCEPT !.pc = "done"]

\* The closures of group g, each run to its first await or to its return
GroupTasks(b, g, cache, time, random) ==
  [j \in 1..Len(b.groups[g]) |->
     StartItem(b, (g - 1) * b.batchSize + j, cache, time, random)]

\* batch.map(async (url) => ...) for the next group, with the tasks ts
\* that exist already: the batch and the tasks afterwards
GroupStarted(b, ts, started) ==
  [batch |-> GroupSettled(
              ItemsRecorded([b EXCEPT !.group = @ + 1, !.first = Len(ts) + 1,
                                       !.pc = "loading"],
                            ts \o started, Len(ts) + 1, Len(ts) + Len(started)),
              ts \o started),
   tasks |-> ts \o started]

\* A batch loader from its call to its first await, or to its return
BatchCalled(b, ts, cache, time, random) ==
  IF Len(b.groups) = 0 THEN [batch |-> [b EXCEPT !.pc = "done"], tasks |-> ts]
  ELSE GroupStarted(b, ts, GroupTasks(b, 1, cache, time, random))

\* The loader taking up the group it has just finished
BatchResumedSame(b, ts, cache, time, random) ==
  GroupStarted([b EXCEPT !.group = @ - 1], ts,
               GroupTasks(b, b.group, cache, time, random))

\* The pause between two groups is over.
BatchResumed(b, ts, cache, time, random) ==
  GroupStarted(b, ts, GroupTasks(b, b.group + 1, cache, time, random))

\* The batch after task i of ts settled, if it is a closure of the batch
BatchAfter(b, ts, i) ==
  IF b.pc # "loading" \/ i < b.first \/ ts[i].pc # "done" THEN b
  ELSE GroupSettled(ItemRecorded(b, ts[i]), ts)

(***************************************************************************)
(* Steps of the page                                                       *)
(***************************************************************************)

\* What the network did with the last retrieval of task t
PlanOutcome(t) == t.plan[Len(t.plan)]

\* Task t with the outcome of the retrieval it is waiting for
Retrieved(t, outcome) == [t EXCEPT !.plan = Append(@, outcome)]

\* Task i took a step that made it t: the task runs on in its caller, the
\* shared cache and the batch see what it settled with.
TaskBecomes(i, t) ==
  /\ tasks' = [tasks EXCEPT ![i] = t]
  /\ imageCache' = CacheAfterLoad(t, imageCache, now)
  /\ batch' = BatchAfter(batch, [tasks EXCEPT ![i] = t], i)
  /\ UNCHANGED << relayVars, pageVars, resolved, now >>

\* A function of fns, which load or resolve one reference, is called with a
\* reference of urls, asking for a number of attempts of retries, in an
\* environment of envs and with a network that does what nets says; the
\* page has made fewer than limit calls, all of the same revision, and they
\* are over.
Call(fns, urls, retries, useProxy, envs, nets, limit) ==
  /\ batch = NoBatch
  /\ Len(tasks) < limit
  /\ \A i \in 1..Len(tasks) : tasks[i].pc = "done"
  /\ \E f \in fns, url \in urls, n \in retries, u \in useProxy, e \in envs,
        net \in nets, random \in RandomTokens :
       /\ \A i \in 1..Len(tasks) : tasks[i].revision = f[2]
       /\ \E t \in {NewTask(f[1], f[2], url,
                             [Options(f[1], n) EXCEPT !.useProxy = u],
                             e.nodeEnv, e.location, net)} :
            \E out \in {Start([t EXCEPT !.startedAt = now], imageCache, now, random)} :
              /\ tasks' = Append(tasks, out)
              /\ imageCache' = CacheAfterCall(out, imageCache)
  /\ UNCHANGED << relayVars, pageVars, resolved, now, batch >>

\* `await fetch(...)` of task i settles; a processor settles.
FetchSettled(i) ==
  /\ tasks[i].pc = "fetch"
  /\ \E outcome \in tasks[i].net, random \in RandomTokens :
       /\ outcome.kind # "timeout"
       /\ \E t \in {Retrieved(tasks[i], outcome)} :
            \E settled \in {IF t.v = "O" THEN optimizedOnFetch(t, outcome)
                             ELSE IF t.v = "P" THEN processorSettles(t, outcome)
                             ELSE LoopOnFetch(t, outcome)} :
              \E out \in {Resume(settled, now, random)} :
                TaskBecomes(i, out)

\* The abort timer of task i fires before the network answered.
AbortFired(i) ==
  /\ tasks[i].pc = "fetch"
  /\ tasks[i].v \in LoopRevisions
  /\ \E outcome \in tasks[i].net, random \in RandomTokens :
       /\ outcome.kind = "timeout"
       /\ \E settled \in {LoopOnAbort(Retrieved(tasks[i], outcome))} :
            \E out \in {Resume(settled, now, random)} :
              TaskBecomes(i, out)

\* `await response.blob()` of task i settles.
BlobRead(i) ==
  /\ tasks[i].pc = "blob"
  /\ \E random \in RandomTokens :
       \E out \in {Resume(IF tasks[i].v = "O" THEN [tasks[i] EXCEPT !.pc = "reader"]
                          ELSE LoopOnBlob(tasks[i]),
                          now, random)} :
         TaskBecomes(i, out)

\* The FileReader of task i fires onload or onerror; optimizedImageLoader
\* sets no onerror, so its promise stays pending when the read fails.
ReaderDone(i) ==
  /\ tasks[i].pc = "reader"
  /\ ~(tasks[i].v = "O" /\ PlanOutcome(tasks[i]).kind = "garbled")
  /\ \E random \in RandomTokens :
       \E out \in {Resume(IF tasks[i].v = "O" THEN optimizedOnLoad(tasks[i])
                          ELSE IF PlanOutcome(tasks[i]).kind = "garbled"
                            THEN LoopOnReaderError(tasks[i])
                          ELSE LoopOnLoad(tasks[i]),
                          now, random)} :
         TaskBecomes(i, out)

\* The backoff timer of task i fires.
BackoffElapsed(i) ==
  /\ tasks[i].pc = "backoff"
  /\ \E random \in RandomTokens :
       \E out \in {Resume(LoopOnBackoff(tasks[i]), now, random)} :
         TaskBecomes(i, out)

\* The image element of task i loads, fails, or its timer fires first.
CanvasSettled(i, outcome) ==
  /\ tasks[i].pc = "canvas"
  /\ \E random \in RandomTokens :
       \E out \in {Resume(LoopOnCanvas(tasks[i], outcome), now, random)} :
         TaskBecomes(i, out)

\* A batch loader of fns is called with a list of lists and a batch size of
\* sizes, with a network that does what nets says.
CallBatch(fns, lists, sizes, envs, nets) ==
  /\ batch = NoBatch
  /\ tasks = << >>
  /\ \E f \in fns, urls \in lists, size \in sizes, e \in envs, net \in nets,
        random \in RandomTokens :
       \E b \in {NewBatch(f[1], f[2], urls,
                           [Options(f[1], 1) EXCEPT !.batchSize = size],
                           e.nodeEnv, e.location, net)} :
       \E out \in {BatchCalled(b, tasks, imageCache, now, random)} :
         /\ batch' = out.batch
         /\ tasks' = out.tasks
  /\ UNCHANGED << relayVars, pageVars, resolved, now, imageCache >>

\* The pause between two groups of the batch is over.
PauseElapsed ==
  /\ batch.pc = "pausing"
  /\ \E random \in RandomTokens :
       \E out \in {BatchResumed(batch, tasks, imageCache, now, random)} :
         /\ batch' = out.batch
         /\ tasks' = out.tasks
  /\ UNCHANGED << relayVars, pageVars, resolved, now, imageCache >>

(***************************************************************************)
(* References, options and network outcomes the loaders are run on         *)
(***************************************************************************)

\* Largest number of attempts a caller asks for
MaxRetries == 3

OkText == S(<<"O","K">>)
PngType == S(<<"i","m","a","g","e","/","p","n","g">>)

Loaded    == Answer(200, OkText, PngType, << 255, 0 >>)
NotFound  == Answer(404, S(<<"N","o","t"," ","F","o","u","n","d">>),
                    S(<<"t","e","x","t","/","h","t","m","l">>), << 60 >>)
EmptyBody == Answer(200, OkText, PngType, << >>)
BadBlob   == Garbled(200, OkText, PngType, << 255 >>)

Outcomes == {NoAnswer, NetworkFailure, Unreadable, NotFound, EmptyBody, BadBlob, Loaded}

CanvasOutcomes == {"drawn", "failed", "expired"}

Production == [nodeEnv |-> "production", location |-> [hostname |-> VercelHost, origin |-> Https \o VercelHost]]
Development ==
  [nodeEnv |-> "development",
   location |-> [hostname |-> LocalHost,
                 origin |-> S(<<"h","t","t","p",":","/","/">>) \o LocalHost \o S(<<":","5","1","7","3">>)]]

\* The functions that load one reference, with their revisions
Loaders ==
  { << "loadImageAsDataUrl", "1" >>, << "loadImageAsDataUrl", "2" >>,
    << "loadImageAsDataUrl", "3" >>, << "loadImageWithCorsFallback", "D" >>,
    << "smartRefreshImage", "1" >>, << "smartRefreshImage", "2" >> }

\* and those that only resolve it
Normalizers ==
  { << "normalizeImageUrl", "1" >>, << "normalizeImageUrl", "2" >>,
    << "getCorsSafeImageUrl", "1" >> }

\* References that are not a non-empty string, blank ones, data: payloads,
\* and references to images
NoReferences == { Undefined, Null, Str(<< >>), Num(42), Arr(<< UrlAllowed >>) }
EdgeReferences == { Str(UrlBlank), Str(UrlData) }
ImageReferences == { Str(UrlAllowed), Str(UrlAllowedQuery), Str(UrlRelative), Str(UrlEvil) }

\* A page freshly loaded: nothing was called and the clock is at its origin
LoadInit ==
  /\ rev = 3
  /\ req = NoRequest
  /\ pc = "idle"
  /\ res = NewRes
  /\ fetched = << >>
  /\ upstream = "none"
  /\ response = << >>
  /\ caught = << >>
  /\ resolved = NotResolved
  /\ now = 0
  /\ imageCache = NoCache
  /\ tasks = << >>
  /\ batch = NoBatch
  /\ hidden = FALSE
  /\ images = << >>
  /\ sessions = << >>
  /\ refreshes = << >>
  /\ cleaned = NoCleanup
  /\ store = NoStore
  /\ share = NoShare

LoadNext ==
  \/ Call(Loaders, {Str(UrlAllowed)}, 1..MaxRetries, {TRUE},
          {Production}, {Outcomes}, 1)
  \/ Call(Loaders \cup Normalizers,
          NoReferences \cup EdgeReferences \cup ImageReferences,
          {2}, BOOLEAN, {Production, Development},
          {{NetworkFailure, Loaded}}, 1)
  \/ \E i \in 1..Len(tasks) : FetchSettled(i)
  \/ \E i \in 1..Len(tasks) : AbortFired(i)
  \/ \E i \in 1..Len(tasks) : BlobRead(i)
  \/ \E i \in 1..Len(tasks) : ReaderDone(i)
  \/ \E i \in 1..Len(tasks) : BackoffElapsed(i)
  \/ \E i \in 1..Len(tasks), outcome \in CanvasOutcomes : CanvasSettled(i, outcome)

\* A page that calls one of the functions that load or resolve a reference
SpecLoad == LoadInit /\ [][LoadNext]_vars

(***************************************************************************)
(* Batches the batch loaders are run on                                    *)
(***************************************************************************)

\* Largest number of references in a batch
MaxUrls == 3

BatchLoaders ==
  { << "preloadImages", "1" >>, << "preloadImages", "2" >>, << "preloadImages", "3" >>,
    << "batchLoadImagesWithCors", "D" >>, << "processBatch", "P" >>,
    << "optimizedImageLoader", "O" >> }

\* The references of a batch: images, and what is not a reference
BatchReferences == { Str(UrlAllowed), Str(UrlEvil), Null }

\* options.batchSize, or the batchSize argument
BatchSizes == { Undefined, Num(1), Num(2) }

\* What the network may do during a batch: answer, or fail in one way
Networks == { {NetworkFailure, Loaded}, {NotFound, Loaded}, {EmptyBody, Loaded} }

\* The lists of references of a batch
BatchLists == SeqsUpTo(BatchReferences, MaxUrls)

\* A page freshly loaded that is about to call a batch loader
BatchInit ==
  /\ rev = 3
  /\ req = NoRequest
  /\ pc = "idle"
  /\ res = NewRes
  /\ fetched = << >>
  /\ upstream = "none"
  /\ response = << >>
  /\ caught = << >>
  /\ resolved = NotResolved
  /\ now = 0
  /\ imageCache = NoCache
  /\ tasks = << >>
  /\ batch = NoBatch
  /\ hidden = FALSE
  /\ images = << >>
  /\ sessions = << >>
  /\ refreshes = << >>
  /\ cleaned = NoCleanup
  /\ store = NoStore
  /\ share = NoShare

BatchNext ==
  \/ CallBatch(BatchLoaders, BatchLists, BatchSizes, {Production}, Networks)
  \/ PauseElapsed
  \/ \E i \in 1..Len(tasks) : FetchSettled(i)
  \/ \E i \in 1..Len(tasks) : BlobRead(i)
  \/ \E i \in 1..Len(tasks) : ReaderDone(i)
  \/ \E i \in 1..Len(tasks) : BackoffElapsed(i)
  \/ \E i \in 1..Len(tasks), outcome \in CanvasOutcomes : CanvasSettled(i, outcome)

\* A page that calls one of the batch loaders
SpecBatch == BatchInit /\ [][BatchNext]_vars

(***************************************************************************)
(* Calls of smartRefreshImage over time                                    *)
(***************************************************************************)

\* Largest number of calls the page makes, and of steps the clock takes
MaxCalls == 2
MaxTicks == 3

\* The clock advances by half the freshness window at a time
ClockStep == FreshnessWindow \div 2

\* An image under two cache-busting time stamps
UrlBusted1 == UrlAllowed \o S(<<"?","_","t","=","1">>)
UrlBusted2 == UrlAllowed \o S(<<"?","_","t","=","2">>)

CacheReferences ==
  { Str(UrlAllowed), Str(UrlPadded), Str(UrlBusted1), Str(UrlBusted2) }

\* Date.now() moves on.
Tick ==
  /\ now < MaxTicks * ClockStep
  /\ now' = now + ClockStep
  /\ UNCHANGED << relayVars, pageVars, resolved, imageCache, tasks, batch >>

\* A page freshly loaded, with no window.imageCache yet
CacheInit ==
  /\ rev = 3
  /\ req = NoRequest
  /\ pc = "idle"
  /\ res = NewRes
  /\ fetched = << >>
  /\ upstream = "none"
  /\ response = << >>
  /\ caught = << >>
  /\ resolved = NotResolved
  /\ now = 0
  /\ imageCache = NoCache
  /\ tasks = << >>
  /\ batch = NoBatch
  /\ hidden = FALSE
  /\ images = << >>
  /\ sessions = << >>
  /\ refreshes = << >>
  /\ cleaned = NoCleanup
  /\ store = NoStore
  /\ share = NoShare

CacheNext ==
  \/ Call({ << "smartRefreshImage", "1" >>, << "smartRefreshImage", "2" >> },
          CacheReferences, {1}, {TRUE}, {Production},
          {{NetworkFailure, Loaded}}, MaxCalls)
  \/ Tick
  \/ \E i \in 1..Len(tasks) : FetchSettled(i)
  \/ \E i \in 1..Len(tasks) : BlobRead(i)
  \/ \E i \in 1..Len(tasks) : ReaderDone(i)
  \/ \E i \in 1..Len(tasks), outcome \in CanvasOutcomes : CanvasSettled(i, outcome)

\* A page that calls smartRefreshImage again and again while time passes
SpecCache == CacheInit /\ [][CacheNext]_vars

(***************************************************************************)
(* The refresh of the images of the page                                   *)
(*                                                                         *)
(* forceRefreshAllImages and startAutoRefresh, of which the repository     *)
(* holds two revisions each:                                               *)
(*   1  src/src/utils/imageUtils.js:537-611 and 674-718                    *)
(*   2  src/unnamed/part_002:230-297 and 354-387                           *)
(***************************************************************************)

\* document.querySelectorAll(selector) throws a SyntaxError unless selector
\* is a valid selector; 'img' selects every img element.
ValidSelector(selector) == selector = "img"

\* The URL object forceRefreshAllImages builds from img.src
\* (imageUtils.js:555-561; part_002:248)
RefreshParsed(revision, originalSrc, origin) ==
  IF revision = "2" \/ StartsWith(originalSrc, S(<<"h","t","t","p">>))
  THEN ParseURL(originalSrc)
  ELSE ParseURLBase(originalSrc, origin)

\* url.toString() after the three parameters are set
\* (imageUtils.js:563-567; part_002:249-253)
RefreshUrl(urlObj, index, time) ==
  Href(SetSearch(urlObj,
    ParamsToString(
      ParamsSet(ParamsSet(ParamsSet(URLSearchParams(urlObj.search),
                                    S(<<"_","r","e","f","r","e","s","h">>), DecString(time)),
                          S(<<"_","f","o","r","c","e">>), S(<<"1">>)),
                S(<<"_","a","t","t","e","m","p","t">>), DecString(index)))))

\* An image forceRefreshAllImages leaves alone: `img.src &&
\* !img.src.startsWith('data:')` is false (imageUtils.js:550; part_002:243)
RefreshSkips(src) == src = << >> \/ StartsWith(src, S(<<"d","a","t","a",":">>))

\* What forceRefreshAllImages holds for the image at index: nothing when
\* it is skipped, a promise resolved with false when new URL threw, and
\* else a test image that is loading with its timeout armed; value is what
\* the promise was resolved with, assigned whether img.src was written.
RefreshItem(revision, src, index, time, origin) ==
  IF RefreshSkips(src)
  THEN [state |-> "skipped", originalSrc |-> src, url |-> << >>, timer |-> "none",
        test |-> "none", value |-> << >>, assigned |-> FALSE]
  ELSE IF ~RefreshParsed(revision, src, origin).ok
    THEN [state |-> "settled", originalSrc |-> src, url |-> << >>, timer |-> "none",
          test |-> "none", value |-> << FALSE >>, assigned |-> FALSE]
  ELSE [state |-> "testing", originalSrc |-> src,
        url |-> RefreshUrl(RefreshParsed(revision, src, origin).val, index, time),
        timer |-> "armed", test |-> "loading", value |-> << >>, assigned |-> FALSE]

\* forceRefreshAllImages(options) up to `await Promise.allSettled(...)`,
\* called by the tick of session caller, or by the page when caller is 0
\* (imageUtils.js:537-604; part_002:230-290)
forceRefreshAllImages(revision, caller, imgs, timeout, time, origin) ==
  [revision |-> revision, caller |-> caller, timeout |-> timeout, pc |-> "waiting",
   items |-> [k \in 1..Len(imgs) |->
                RefreshItem(revision, imgs[k].src, k - 1, time, origin)],
   result |-> << >>]

\* resolve(value) of the promise of an item: a promise is resolved once
Resolved(item, value) ==
  IF item.value = << >> THEN [item EXCEPT !.value = << value >>] ELSE item

\* clearTimeout(timeoutId)
Cleared(item) == IF item.timer = "armed" THEN [item EXCEPT !.timer = "cleared"] ELSE item

\* testImg.onload (imageUtils.js:579-584; part_002:265-270)
testImgOnload(item) ==
  Resolved([Cleared(item) EXCEPT !.test = "loaded", !.assigned = TRUE], TRUE)

\* testImg.onerror (imageUtils.js:586-590; part_002:272-276)
testImgOnerror(item) ==
  Resolved([Cleared(item) EXCEPT !.test = "failed"], FALSE)

\* The callback of the timeout (imageUtils.js:570-573; part_002:256-259)
refreshOnTimeout(item) ==
  Resolved([item EXCEPT !.timer = "fired"], FALSE)

\* Every promise of the call is settled
AllSettled(r) ==
  \A k \in 1..Len(r.items) : r.items[k].state = "skipped" \/ r.items[k].value # << >>

\* successCount (imageUtils.js:605-607; part_002:291-293)
successCount(r) ==
  Cardinality({ k \in 1..Len(r.items) : r.items[k].value = << TRUE >> })

\* The stop handle, were it to leave the timer alone
stopHandleIdle(ses) == [ses EXCEPT !.stopped = TRUE]

\* The function startAutoRefresh returns: clearInterval(intervalId)
\* (imageUtils.js:714-717; part_002:383-386)
stopHandle(ses) == [ses EXCEPT !.intervalId = "cleared", !.stopped = TRUE]

\* startAutoRefresh(options) (imageUtils.js:674-718; part_002:354-387);
\* ticks and failed count the ticks the session ran and those that failed
startAutoRefresh(revision, options) ==
  [revision |-> revision, selector |-> options.selector,
   maxRetries |-> options.maxRetries, retryCount |-> 0,
   intervalId |-> "active", ticks |-> 0, failed |-> 0, stopped |-> FALSE]

\* The tick throws before its first await: the catch block
\* (imageUtils.js:707-710; part_002:376-379)
tickCatch(ses) == [ses EXCEPT !.retryCount = @ + 1, !.failed = @ + 1]

\* The tick after the await, were a success to leave the counter alone
tickAfterRefreshCounting(ses, success) ==
  IF success THEN ses
  ELSE [ses EXCEPT !.retryCount = @ + 1, !.failed = @ + 1,
                   !.intervalId = IF ses.retryCount + 1 >= ses.maxRetries
                                  THEN "cleared" ELSE @]

\* The tick after `await forceRefreshAllImages(...)` returned success
\* (imageUtils.js:698-706; part_002:367-375)
tickAfterRefresh(ses, success) ==
  IF success THEN [ses EXCEPT !.retryCount = 0]
  ELSE [ses EXCEPT !.retryCount = @ + 1, !.failed = @ + 1,
                   !.intervalId = IF ses.retryCount + 1 >= ses.maxRetries
                                  THEN "cleared" ELSE @]

\* The tick skips its work: revision 1 on a hidden document
\* (imageUtils.js:688-691)
tickSkips(ses, isHidden) == ses.revision = "1" /\ isHidden

\* The ticks the sessions have run
TicksRun == [s \in 1..Len(sessions) |-> sessions[s].ticks]

RECURSIVE SumTo(_, _)
SumTo(f, n) == IF n = 0 THEN 0 ELSE f[n] + SumTo(f, n - 1)

\* Every call of forceRefreshAllImages has returned and its test images
\* have loaded or failed
NoRefreshWaiting ==
  \A r \in 1..Len(refreshes) :
    /\ refreshes[r].pc # "waiting"
    /\ \A k \in 1..Len(refreshes[r].items) : refreshes[r].items[k].test # "loading"

\* The calls made so far, once they are over: their promises, their test
\* images and what they returned are referred to by nothing any more
Over(calls) ==
  [r \in 1..Len(calls) |->
     [calls[r] EXCEPT !.caller = 0, !.items = << >>, !.result = << >>]]

\* startAutoRefresh is called with options of a set, as the view mounts:
\* the page has started fewer than limit sessions, all of the same revision
\* and with the same options, and none of them has run a tick yet.
StartAutoRefresh(revisions, options, limit) ==
  /\ Len(sessions) < limit
  /\ \A s \in 1..Len(sessions) : sessions[s].ticks = 0
  /\ \E revision \in revisions, o \in options :
       /\ \A s \in 1..Len(sessions) :
            sessions[s] = [startAutoRefresh(revision, o) EXCEPT
                             !.retryCount = sessions[s].retryCount,
                             !.intervalId = sessions[s].intervalId,
                             !.ticks = sessions[s].ticks,
                             !.failed = sessions[s].failed,
                             !.stopped = sessions[s].stopped]
       /\ \A r \in 1..Len(refreshes) : refreshes[r].revision = revision
       /\ sessions' = Append(sessions, startAutoRefresh(revision, o))
  /\ UNCHANGED << relayVars, resolved, loaderVars, appVars, hidden, images, refreshes >>

\* The interval timer of session s fires and its callback runs up to its
\* first await, or to its end; the interval (120 s, 60 s) is longer than a
\* refresh takes (5 s), so the refresh of the last tick has returned, and
\* its test images have loaded or failed.  The
\* sessions have run fewer than limit ticks and fewer than limit calls of
\* forceRefreshAllImages were made.
IntervalFires(s, limit) ==
  /\ sessions[s].intervalId = "active"
  /\ SumTo(TicksRun, Len(sessions)) < limit
  /\ Len(refreshes) < limit
  /\ NoRefreshWaiting
  /\ \E ses \in {[sessions[s] EXCEPT !.ticks = @ + 1]} :
       IF tickSkips(ses, hidden)
       THEN /\ sessions' = [sessions EXCEPT ![s] = ses]
            /\ UNCHANGED refreshes
       ELSE IF ~ValidSelector(ses.selector)
         THEN /\ sessions' = [sessions EXCEPT ![s] = tickCatch(ses)]
              /\ UNCHANGED refreshes
       ELSE /\ sessions' = [sessions EXCEPT ![s] = ses]
            /\ refreshes' = Append(Over(refreshes),
                 forceRefreshAllImages(ses.revision, s, images, 5000, now,
                                       Production.location.origin))
  /\ UNCHANGED << relayVars, resolved, loaderVars, appVars, hidden, images >>

\* The stop handle of session s is called, for the first time or again.
StopCalled(s) ==
  /\ sessions' = [sessions EXCEPT ![s] = stopHandle(sessions[s])]
  /\ UNCHANGED << relayVars, resolved, loaderVars, appVars, hidden, images, refreshes >>

\* The page calls forceRefreshAllImages() itself; fewer than limit calls
\* of it were made.
ManualRefresh(revisions, limit) ==
  /\ NoRefreshWaiting
  /\ Len(refreshes) < limit
  /\ \E revision \in revisions :
       /\ \A s \in 1..Len(sessions) : sessions[s].revision = revision
       /\ \A r \in 1..Len(refreshes) : refreshes[r].revision = revision
       /\ refreshes' = Append(Over(refreshes),
            forceRefreshAllImages(revision, 0, images, 5000, now,
                                  Production.location.origin))
  /\ UNCHANGED << relayVars, resolved, loaderVars, appVars, hidden, images, sessions >>

\* The test image of item k of call r loads: img.src is written.
TestImageLoads(r, k) ==
  /\ k <= Len(refreshes[r].items)
  /\ refreshes[r].items[k].test = "loading"
  /\ refreshes' = [refreshes EXCEPT ![r].items[k] = testImgOnload(@)]
  /\ images' = [images EXCEPT ![k].src = refreshes[r].items[k].url]
  /\ UNCHANGED << relayVars, resolved, loaderVars, appVars, hidden, sessions >>

\* The test image of item k of call r fails to load.
TestImageFails(r, k) ==
  /\ k <= Len(refreshes[r].items)
  /\ refreshes[r].items[k].test = "loading"
  /\ refreshes' = [refreshes EXCEPT ![r].items[k] = testImgOnerror(@)]
  /\ UNCHANGED << relayVars, resolved, loaderVars, appVars, hidden, images, sessions >>

\* The timeout of item k of call r fires.
RefreshTimeout(r, k) ==
  /\ k <= Len(refreshes[r].items)
  /\ refreshes[r].items[k].timer = "armed"
  /\ refreshes' = [refreshes EXCEPT ![r].items[k] = refreshOnTimeout(@)]
  /\ UNCHANGED << relayVars, resolved, loaderVars, appVars, hidden, images, sessions >>

\* `await Promise.allSettled(refreshPromises)` of call r is over: the call
\* returns `successCount > 0` and the tick that made it runs to its end.
RefreshReturns(r) ==
  /\ refreshes[r].pc = "waiting"
  /\ AllSettled(refreshes[r])
  /\ refreshes' = [refreshes EXCEPT ![r].pc = "done",
                     ![r].result = << successCount(refreshes[r]) > 0 >>]
  /\ sessions' = IF refreshes[r].caller = 0 THEN sessions
                 ELSE [sessions EXCEPT ![refreshes[r].caller] =
                         tickAfterRefresh(@, successCount(refreshes[r]) > 0)]
  /\ UNCHANGED << relayVars, resolved, loaderVars, appVars, hidden, images >>

\* The user hides the page, or comes back to it.
VisibilityChanges ==
  /\ hidden' = ~hidden
  /\ UNCHANGED << relayVars, resolved, loaderVars, appVars, images, sessions, refreshes >>

(***************************************************************************)
(* Pages whose images are refreshed                                        *)
(***************************************************************************)

MaxIntervals == 3

\* The img elements of a page, by their src
Documents ==
  { << >>, << [src |-> UrlData], [src |-> UrlAllowed] >> }

\* The options of startAutoRefresh: a valid selector and one that is not,
\* and the circuit breaker at 2 failures or at the 3 of the default
SessionOptions ==
  { [selector |-> "img", maxRetries |-> 2], [selector |-> "img[", maxRetries |-> 2],
    [selector |-> "img", maxRetries |-> 3] }

\* A page that has started no refresh
RefreshInit ==
  /\ rev = 3
  /\ req = NoRequest
  /\ pc = "idle"
  /\ res = NewRes
  /\ fetched = << >>
  /\ upstream = "none"
  /\ response = << >>
  /\ caught = << >>
  /\ resolved = NotResolved
  /\ now = 0
  /\ imageCache = NoCache
  /\ tasks = << >>
  /\ batch = NoBatch
  /\ hidden = FALSE
  /\ images \in Documents
  /\ sessions = << >>
  /\ refreshes = << >>
  /\ cleaned = NoCleanup
  /\ store = NoStore
  /\ share = NoShare

RefreshNext ==
  \/ StartAutoRefresh({"1", "2"}, SessionOptions, 1)
  \/ \E s \in 1..Len(sessions) : IntervalFires(s, MaxIntervals)
  \/ \E s \in 1..Len(sessions) : StopCalled(s)
  \/ ManualRefresh({"1", "2"}, MaxIntervals)
  \/ \E r \in 1..Len(refreshes), k \in 1..Len(images) : TestImageLoads(r, k)
  \/ \E r \in 1..Len(refreshes), k \in 1..Len(images) : TestImageFails(r, k)
  \/ \E r \in 1..Len(refreshes), k \in 1..Len(images) : RefreshTimeout(r, k)
  \/ \E r \in 1..Len(refreshes) : RefreshReturns(r)
  \/ VisibilityChanges

\* A page that starts a refresh session, stops it and refreshes by hand
SpecRefresh == RefreshInit /\ [][RefreshNext]_vars

(***************************************************************************)
(* Views that start a refresh session more than once                       *)
(***************************************************************************)

MaxSessions == 2

\* A page with an image, before its view mounts
SessionsInit ==
  /\ rev = 3
  /\ req = NoRequest
  /\ pc = "idle"
  /\ res = NewRes
  /\ fetched = << >>
  /\ upstream = "none"
  /\ response = << >>
  /\ caught = << >>
  /\ resolved = NotResolved
  /\ now = 0
  /\ imageCache = NoCache
  /\ tasks = << >>
  /\ batch = NoBatch
  /\ hidden = FALSE
  /\ images = << [src |-> UrlAllowed] >>
  /\ sessions = << >>
  /\ refreshes = << >>
  /\ cleaned = NoCleanup
  /\ store = NoStore
  /\ share = NoShare

SessionsNext ==
  \/ StartAutoRefresh({"1", "2"}, SessionOptions, MaxSessions)
  \/ \E s \in 1..Len(sessions) : IntervalFires(s, MaxIntervals)
  \/ \E s \in 1..Len(sessions) : StopCalled(s)
  \/ \E r \in 1..Len(refreshes), k \in 1..Len(images) : TestImageLoads(r, k)
  \/ \E r \in 1..Len(refreshes), k \in 1..Len(images) : TestImageFails(r, k)
  \/ \E r \in 1..Len(refreshes), k \in 1..Len(images) : RefreshTimeout(r, k)
  \/ \E r \in 1..Len(refreshes) : RefreshReturns(r)

\* A view that calls startAutoRefresh each time it mounts
SpecSessions == SessionsInit /\ [][SessionsNext]_vars

(***************************************************************************)
(* The caches                                                              *)
(*                                                                         *)
(* cleanupImageCache (src/src/utils/imageUtils.js:724-752) over the Map    *)
(* smartRefreshImage writes to, and the cache createCache makes            *)
(* (src/src/utils/corsUtils.js:309-324).                                   *)
(***************************************************************************)

\* The defaults of cleanupImageCache (imageUtils.js:726-727)
CleanupMaxAge == 300000
CleanupMaxSize == 50

\* `now - data.timestamp < maxAge` (imageUtils.js:736-738)
StillValid(entry, time, maxAge) == time - entry[2].timestamp < maxAge

\* Array.prototype.filter with that test
RECURSIVE ValidEntries(_, _, _)
ValidEntries(entries, time, maxAge) ==
  IF entries = << >> THEN << >>
  ELSE (IF StillValid(Head(entries), time, maxAge) THEN << Head(entries) >> ELSE << >>)
       \o ValidEntries(Tail(entries), time, maxAge)

\* One entry put in its place by a sort that orders the oldest first
RECURSIVE InsertOldest(_, _)
InsertOldest(sorted, entry) ==
  IF sorted = << >> THEN << entry >>
  ELSE IF Head(sorted)[2].timestamp <= entry[2].timestamp
    THEN << Head(sorted) >> \o InsertOldest(Tail(sorted), entry)
  ELSE << entry >> \o sorted

\* One entry put in its place by sort((a, b) => b[1].timestamp -
\* a[1].timestamp) (imageUtils.js:742): the sort is stable, so an entry
\* follows those of the same time stamp that preceded it
RECURSIVE InsertRecent(_, _)
InsertRecent(sorted, entry) ==
  IF sorted = << >> THEN << entry >>
  ELSE IF Head(sorted)[2].timestamp >= entry[2].timestamp
    THEN << Head(sorted) >> \o InsertRecent(Tail(sorted), entry)
  ELSE << entry >> \o sorted

RECURSIVE SortRecent(_)
SortRecent(entries) ==
  IF entries = << >> THEN << >>
  ELSE InsertRecent(SortRecent(SubSeq(entries, 1, Len(entries) - 1)),
                    entries[Len(entries)])

\* Array.prototype.slice(0, end)
SliceTo(entries, upTo) ==
  IF upTo >= 0
  THEN SubSeq(entries, 1, IF upTo < Len(entries) THEN upTo ELSE Len(entries))
  ELSE SubSeq(entries, 1, IF Len(entries) + upTo > 0 THEN Len(entries) + upTo ELSE 0)

\* cleanupImageCache(options) (imageUtils.js:724-752)
cleanupImageCache(cache, options, time) ==
  IF ~cache.created THEN cache
  ELSE [cache EXCEPT !.entries =
          SliceTo(SortRecent(ValidEntries(@, time, options.maxAge)), options.maxSize)]

\* The page calls cleanupImageCache.
CleanupImageCache(options, limit) ==
  /\ cleaned.calls < limit
  /\ \E o \in options :
       /\ imageCache' = cleanupImageCache(imageCache, o, now)
       /\ cleaned' = [calls |-> cleaned.calls + 1,
                       maxAge |-> o.maxAge, maxSize |-> o.maxSize,
                       removed |-> Len(imageCache.entries)
                                     - Len(cleanupImageCache(imageCache, o, now).entries)]
  /\ UNCHANGED << relayVars, resolved, now, tasks, batch,
                  hidden, images, sessions, refreshes, store, share >>

\* Largest number of calls of cleanupImageCache
MaxCleanups == 1

\* cleanupImageCache() and cleanupImageCache({ maxAge, maxSize })
CleanupOptions ==
  { [maxAge |-> CleanupMaxAge, maxSize |-> CleanupMaxSize],
    [maxAge |-> CleanupMaxAge, maxSize |-> 1],
    [maxAge |-> ClockStep, maxSize |-> 1],
    [maxAge |-> ClockStep, maxSize |-> 2] }

CleanupInit == CacheInit

CleanupNext ==
  \/ Call({ << "smartRefreshImage", "1" >>, << "smartRefreshImage", "2" >> },
          CacheReferences, {1}, {TRUE}, {Production},
          {{NetworkFailure, Loaded}}, MaxCalls)
  \/ Tick
  \/ CleanupImageCache(CleanupOptions, MaxCleanups)
  \/ \E i \in 1..Len(tasks) : FetchSettled(i)
  \/ \E i \in 1..Len(tasks) : BlobRead(i)
  \/ \E i \in 1..Len(tasks) : ReaderDone(i)
  \/ \E i \in 1..Len(tasks), outcome \in CanvasOutcomes : CanvasSettled(i, outcome)

\* A page that calls smartRefreshImage and cleanupImageCache while time
\* passes
SpecCleanup == CleanupInit /\ [][CleanupNext]_vars

\* createCache(maxSize) (corsUtils.js:309-311, 321-322)
createCache(maxSize) ==
  [created |-> TRUE, maxSize |-> maxSize, entries |-> << >>, puts |-> 0]

\* cache.set(key, value) of the n-th value written (corsUtils.js:314-320)
storeSet(c, key) ==
  [c EXCEPT !.entries = CacheSet(@, c.maxSize, key, c.puts + 1), !.puts = @ + 1]

\* cache.clear() (corsUtils.js:321)
storeClear(c) == [c EXCEPT !.entries = << >>]

CreateCache(sizes) ==
  /\ ~store.created
  /\ \E n \in sizes : store' = createCache(n)
  /\ UNCHANGED << relayVars, resolved, loaderVars,
                  hidden, images, sessions, refreshes, cleaned, share >>

StoreSet(keys, limit) ==
  /\ store.created
  /\ store.puts < limit
  /\ \E key \in keys : store' = storeSet(store, key)
  /\ UNCHANGED << relayVars, resolved, loaderVars,
                  hidden, images, sessions, refreshes, cleaned, share >>

StoreClear ==
  /\ store.created
  /\ store.entries # << >>
  /\ store' = storeClear(store)
  /\ UNCHANGED << relayVars, resolved, loaderVars,
                  hidden, images, sessions, refreshes, cleaned, share >>

\* Largest number of values written to the cache, its sizes and its keys
MaxPuts == 5
StoreSizes == 1..3
StoreKeys == {"a", "b", "c", "d"}

StoreInit == CacheInit

StoreNext ==
  \/ CreateCache(StoreSizes)
  \/ StoreSet(StoreKeys, MaxPuts)
  \/ StoreClear

\* A caller that makes a cache and writes to it
SpecStore == StoreInit /\ [][StoreNext]_vars

(***************************************************************************)
(* Sharing the contract as a PDF                                           *)
(*                                                                         *)
(* handleSharePdf (src/src/App.jsx:555-605, src/unnamed/part_003:411-458,  *)
(* the same text), the onClick handler of the share button.                *)
(***************************************************************************)

\* The button while a PDF is made, and as restored (App.jsx:565-568,
\* 598-602): "busy" and "idle" stand for the two labels
BusyButton == [textContent |-> "busy", disabled |-> TRUE]
IdleButton == [textContent |-> "idle", disabled |-> FALSE]

\* The finally block (App.jsx:596-604): shareBtnRef.current is the button
\* for as long as the page is mounted
shareFinally(sh) == [sh EXCEPT !.btn = IdleButton, !.isSharing = FALSE]

\* handleSharePdf() up to `await generatePdfBlob()`, or to its return
\* (App.jsx:555-570): the return of line 558 is inside the try block, so
\* the finally block runs after it
handleSharePdf(sh) ==
  IF sh.isSharing
  THEN shareFinally([sh EXCEPT !.calls = Append(@, [pc |-> "done", end |-> "busy"])])
  ELSE [sh EXCEPT !.isSharing = TRUE, !.btn = BusyButton,
                  !.calls = Append(@, [pc |-> "generating", end |-> "none"])]

\* After `await generatePdfBlob()` (App.jsx:570-594): a rejection is caught
\* and reported, a blob is shared through navigator.share where that can
\* share files and downloaded otherwise
shareOnBlob(sh, i, outcome, canShareFiles) ==
  IF outcome = "rejected"
  THEN shareFinally([sh EXCEPT !.calls[i] = [pc |-> "done", end |-> "failed"]])
  ELSE IF canShareFiles
    THEN [sh EXCEPT !.calls[i] = [pc |-> "sharing", end |-> "none"]]
  ELSE shareFinally([sh EXCEPT !.calls[i] = [pc |-> "done", end |-> "downloaded"]])

\* After `await navigator.share(...)` (App.jsx:576-579)
shareOnShared(sh, i, outcome) ==
  shareFinally([sh EXCEPT !.calls[i] =
                  [pc |-> "done", end |-> IF outcome = "rejected" THEN "failed"
                                          ELSE "shared"]])

\* handleSharePdf is invoked.
HandleSharePdf(limit) ==
  /\ Len(share.calls) < limit
  /\ share' = handleSharePdf(share)
  /\ UNCHANGED << relayVars, resolved, loaderVars,
                  hidden, images, sessions, refreshes, cleaned, store >>

\* generatePdfBlob() of call i settles.
GenerateSettles(i, outcomes) ==
  /\ share.calls[i].pc = "generating"
  /\ \E outcome \in outcomes, canShareFiles \in BOOLEAN :
       share' = shareOnBlob(share, i, outcome, canShareFiles)
  /\ UNCHANGED << relayVars, resolved, loaderVars,
                  hidden, images, sessions, refreshes, cleaned, store >>

\* navigator.share() of call i settles.
ShareSettles(i, outcomes) ==
  /\ share.calls[i].pc = "sharing"
  /\ \E outcome \in outcomes : share' = shareOnShared(share, i, outcome)
  /\ UNCHANGED << relayVars, resolved, loaderVars,
                  hidden, images, sessions, refreshes, cleaned, store >>

\* Largest number of invocations of handleSharePdf
MaxShares == 4

ShareInit == CacheInit

ShareNext ==
  \/ HandleSharePdf(MaxShares)
  \/ \E i \in 1..Len(share.calls) : GenerateSettles(i, {"fulfilled", "rejected"})
  \/ \E i \in 1..Len(share.calls) : ShareSettles(i, {"fulfilled", "rejected"})

\* A page on which handleSharePdf is invoked again and again
SpecShare == ShareInit /\ [][ShareNext]_vars

(***************************************************************************)
(* Batch loads to their end                                                *)
(***************************************************************************)

\* The batch loaders over the retry loops
ReturningLoaders ==
  { << "preloadImages", "1" >>, << "preloadImages", "2" >>, << "preloadImages", "3" >>,
    << "batchLoadImagesWithCors", "D" >> }

\* What the network may do during such a batch: answer, fail, or stay
\* silent until the timeout aborts the fetch
ReturningNetworks == { {NetworkFailure, Loaded}, {NoAnswer, Loaded} }

ReturnInit == BatchInit

ReturnNext ==
  \/ CallBatch(ReturningLoaders, BatchLists, BatchSizes, {Production}, ReturningNetworks)
  \/ PauseElapsed
  \/ \E i \in 1..Len(tasks) : FetchSettled(i)
  \/ \E i \in 1..Len(tasks) : AbortFired(i)
  \/ \E i \in 1..Len(tasks) : BlobRead(i)
  \/ \E i \in 1..Len(tasks) : ReaderDone(i)
  \/ \E i \in 1..Len(tasks) : BackoffElapsed(i)
  \/ \E i \in 1..Len(tasks), outcome \in CanvasOutcomes : CanvasSettled(i, outcome)

\* A step of a retrieval of the batch: a fetch settles or is aborted by its
\* timer, a back-off timer fires, a continuation runs
RetrievalStep ==
  \/ \E i \in 1..Len(tasks) : FetchSettled(i)
  \/ \E i \in 1..Len(tasks) : AbortFired(i)
  \/ \E i \in 1..Len(tasks) : BlobRead(i)
  \/ \E i \in 1..Len(tasks) : ReaderDone(i)
  \/ \E i \in 1..Len(tasks) : BackoffElapsed(i)
  \/ \E i \in 1..Len(tasks), outcome \in CanvasOutcomes : CanvasSettled(i, outcome)

\* A page that calls a batch loader.  Every fetch settles or is aborted by
\* its timer, every timer that is armed fires, and the event loop runs a
\* continuation once its promise has settled: while a retrieval can take a
\* step, one does.
FairSpecBatch ==
  /\ ReturnInit /\ [][ReturnNext]_vars
  /\ WF_vars(RetrievalStep)

(***************************************************************************)
(* Properties                                                              *)
(***************************************************************************)

\* The body res.json({error: msg}) sends.
JsonError(msg) == [kind |-> "json", value |-> [error |-> msg]]

\* What new URL yields for the decoded value of a string parameter, or the
\* error thrown on the way.
ParsedIfDecoded(decoded) == IF decoded.ok THEN ParseURL(decoded.val) ELSE decoded
ParsedParam(url) == ParsedIfDecoded(decodeURIComponent(url.val))

\* The host name is not literally one of the entries of the allow-list.
NotOnAllowList(hostname) ==
  \A i \in 1..Len(allowedDomains) : allowedDomains[i] # hostname

HostRejected(u) == u.ok /\ NotOnAllowList(u.val.hostname)

\* C1: a GET whose url parameter decodes and parses to an absolute URL
\* with a host name that is not exactly an entry of the allow-list is
\* answered 403 {error: "Domain not allowed"}, and no upstream retrieval
\* is made for it.
C1_ForbiddenHost403 ==
  (/\ req.method = "GET"
   /\ req.url.type = "string"
   /\ HostRejected(ParsedParam(req.url)))
  => (/\ pc = "done"
      /\ res.statusCode = 403
      /\ res.body = JsonError("Domain not allowed")
      /\ res.finished = 1
      /\ fetched = << >>)

\* A host that merely contains the allowed name has been refused.
C1_Witness ==
  /\ pc = "done"
  /\ req = [method |-> "GET", url |-> Str(UrlSuffixHost)]
  /\ res.statusCode = 403

\* A resolver call came back with a dev-relay or prod-relay route.
Rewritten(call) ==
  /\ call.out.type = "string"
  /\ \/ StartsWith(call.out.val, DevPrefix)
     \/ Includes(call.out.val, ProxyPath \o << 63 >> \o UrlParam \o << 61 >>)

\* C2: a resolver rewrites a reference to a dev-relay or prod-relay route
\* only if the relay's allow-list check accepts the host name of the
\* reference.
C2_SameAllowList ==
  Rewritten(resolved) => ~HostRejected(ParseURL(resolved.ref.val))

\* C3: once the upstream has gone silent, the relay still answers the
\* request, with 408 {error: "Request timeout"}.
C3_SilentUpstream408 ==
  (upstream = "silent")
    ~> (/\ pc = "done"
        /\ res.statusCode = 408
        /\ res.body = JsonError("Request timeout"))

\* C4: a request whose method is neither GET nor OPTIONS is answered
\* 405 {error: "Method not allowed"} whatever its query, and no upstream
\* retrieval is made for it.
C4_OtherMethod405 ==
  (req # NoRequest /\ req.method \notin {"GET", "OPTIONS"})
  => (/\ pc = "done"
      /\ res.statusCode = 405
      /\ res.body = JsonError("Method not allowed")
      /\ res.finished = 1
      /\ fetched = << >>)

\* A POST that names an allowed image has been refused.
C4_Witness ==
  /\ pc = "done"
  /\ req = [method |-> "POST", url |-> Str(UrlAllowed)]
  /\ res.statusCode = 405

\* The CORS headers of the relay, and nothing else.
CorsHeaders ==
  [n \in {"Access-Control-Allow-Origin", "Access-Control-Allow-Methods",
          "Access-Control-Allow-Headers"} |->
     IF n = "Access-Control-Allow-Origin" THEN "*"
     ELSE IF n = "Access-Control-Allow-Methods" THEN "GET, OPTIONS"
     ELSE "Content-Type"]

\* C5: an OPTIONS request is answered 200 without a body, with the CORS
\* headers (any origin, methods GET and OPTIONS, header Content-Type),
\* whatever its url parameter is and without an upstream retrieval.
C5_Preflight200 ==
  (req.method = "OPTIONS")
  => (/\ pc = "done"
      /\ res.statusCode = 200
      /\ res.body = NoBody
      /\ res.finished = 1
      /\ res.headers = CorsHeaders
      /\ fetched = << >>)

\* A preflight whose url parameter could not even be decoded was answered.
C5_Witness ==
  /\ pc = "done"
  /\ req = [method |-> "OPTIONS", url |-> Str(UrlBadEscape)]
  /\ res.statusCode = 200
  /\ res.finished = 1

\* C6: a GET whose url parameter is missing or empty is answered 400 with
\* a JSON error body, and no upstream retrieval is made for it.
C6_MissingParam400 ==
  (req.method = "GET" /\ req.url \in {Undefined, Str(<< >>)})
  => (/\ pc = "done"
      /\ res.statusCode = 400
      /\ res.body.kind = "json"
      /\ res.body.value.error # ""
      /\ res.finished = 1
      /\ fetched = << >>)

\* A GET with an empty url parameter was answered 400.
C6_Witness ==
  /\ pc = "done"
  /\ req = [method |-> "GET", url |-> Str(<< >>)]
  /\ res.statusCode = 400

\* C7: a GET whose url parameter cannot be decoded, or whose decoded value
\* does not parse as an absolute URL, is answered 400 (never 500), and no
\* upstream retrieval is made for it.
C7_BadParam400 ==
  (/\ req.method = "GET"
   /\ req.url.type = "string"
   /\ req.url.val # << >>
   /\ ~ParsedParam(req.url).ok)
  => (/\ pc = "done"
      /\ res.statusCode = 400
      /\ fetched = << >>)

\* C8: when the upstream answers with a non-success status, the relay
\* answers with that status and {error: "Failed to fetch image: <reason>"},
\* after exactly one upstream retrieval.
C8_UpstreamStatusRelayed ==
  (response # << >> /\ response[1].status \notin 200..299)
  => (/\ pc = "done"
      /\ res.statusCode = response[1].status
      /\ res.body = JsonError("Failed to fetch image: " \o response[1].statusText)
      /\ res.finished = 1
      /\ Len(fetched) = 1)

\* The upstream's 404 has been passed on.
C8_Witness ==
  /\ pc = "done"
  /\ response # << >>
  /\ response[1].status = 404
  /\ res.statusCode = 404

\* The Content-Type the relay owes the caller for what the upstream
\* declared (<< >> when it declared none).
OwedContentType(declared) ==
  IF declared \in {<< >>, << "" >>} THEN "image/jpeg" ELSE declared[1]

\* C9: when the upstream answers successfully and its body has been read,
\* the relay answers 200 with the upstream's bytes, the upstream's content
\* type (the default image type when it declares none) and
\* Cache-Control "public, max-age=3600".
C9_SuccessRelayed ==
  (/\ pc = "done"
   /\ response # << >>
   /\ response[1].status \in 200..299
   /\ caught = << >>)
  => (/\ res.statusCode = 200
      /\ res.body = [kind |-> "bytes", bytes |-> response[1].body]
      /\ res.finished = 1
      /\ "Content-Type" \in DOMAIN res.headers
      /\ res.headers["Content-Type"] = OwedContentType(response[1].contentType)
      /\ "Cache-Control" \in DOMAIN res.headers
      /\ res.headers["Cache-Control"] = "public, max-age=3600")

\* A typed, non-empty upstream body has been relayed.
C9_Witness ==
  /\ pc = "done"
  /\ response # << >>
  /\ response[1].status = 200
  /\ response[1].contentType = << "image/png" >>
  /\ response[1].body = << 255, 0 >>
  /\ res.body = [kind |-> "bytes", bytes |-> << 255, 0 >>]

\* C10: a fault that reaches the handler's catch block is answered
\* 500 {error: "Internal server error"}.
C10_Fault500 ==
  (caught # << >>)
  => (/\ pc = "done"
      /\ res.statusCode = 500
      /\ res.body = JsonError("Internal server error")
      /\ res.finished = 1)

\* The functions that load one reference through a retry loop
LoaderFns == {"loadImageAsDataUrl", "loadImageWithCorsFallback", "smartRefreshImage"}

\* A retrieval succeeds: a 2xx answer that can be read and is not empty
Succeeds(outcome) ==
  outcome.kind = "http" /\ outcome.status \in 200..299 /\ outcome.bytes # << >>

\* The payload of a retrieval, as the data URL of its bytes
Payload(outcome) == Str(readAsDataURL(Blob(outcome.bytes, outcome.type)))

\* The first retrievals of plan failed and its last succeeded
FailedThenSucceeded(plan) ==
  /\ plan # << >>
  /\ Succeeds(plan[Len(plan)])
  /\ \A k \in 1..(Len(plan) - 1) : ~Succeeds(plan[k])

AllFailed(plan) == plan # << >> /\ \A k \in 1..Len(plan) : ~Succeeds(plan[k])

\* Task t ran one retry loop, and not the two of loadImageWithCorsFallback
\* without useProxy
SingleLoop(t) == t.fn # "loadImageWithCorsFallback" \/ t.options.useProxy

\* C12: when every attempt fails, the retry loop makes exactly N fetch
\* attempts and then reports to its caller a terminal failure that carries
\* the cause of the last attempt.
C12_ExhaustedReportsCause ==
  \A i \in 1..Len(tasks) :
    (/\ tasks[i].fn \in LoaderFns
     /\ SingleLoop(tasks[i])
     /\ AllFailed(tasks[i].plan))
    => (/\ Len(tasks[i].fetched) <= tasks[i].options.retries
        /\ tasks[i].pc = "done"
             => (/\ Len(tasks[i].fetched) = tasks[i].options.retries
                 /\ tasks[i].error # << >>
                 /\ tasks[i].inner.state = "thrown"
                 /\ Includes(tasks[i].inner.value.val, tasks[i].error[1])))

\* C13: an opaque answer to a fetch attempt is only that attempt's failure:
\* while attempts or fallback strategies remain, the load goes on to them
\* and does not return a failure to its caller.
C13_OpaqueIsNotTerminal ==
  \A i \in 1..Len(tasks) :
    (/\ tasks[i].fn \in LoaderFns
     /\ tasks[i].plan # << >>
     /\ PlanOutcome(tasks[i]).kind = "opaque"
     /\ Len(tasks[i].plan) = Len(tasks[i].fetched)
     /\ Len(tasks[i].fetched) < tasks[i].options.retries)
    => tasks[i].pc = "backoff"

\* A retrieval answers 2xx with a zero-length payload
IsEmptyPayload(outcome) ==
  outcome.kind = "http" /\ outcome.status \in 200..299 /\ outcome.bytes = << >>

\* The values a Map holds
MapValues(entries) == { entries[k][2] : k \in 1..Len(entries) }

\* C14: a successful answer with a zero-length payload is a failed attempt:
\* it is never returned or cached as a payload, and it is retried up to the
\* retry bound.
C14_EmptyPayloadFails ==
  \A i \in 1..Len(tasks) :
    \A k \in 1..Len(tasks[i].plan) :
      IsEmptyPayload(tasks[i].plan[k])
      => (/\ tasks[i].result # Fulfilled(Payload(tasks[i].plan[k]))
          /\ batch.fn # "none"
               => (/\ Payload(tasks[i].plan[k]) \notin MapValues(batch.results)
                   /\ Payload(tasks[i].plan[k]) \notin MapValues(batch.cache))
          /\ (/\ k = Len(tasks[i].plan)
              /\ tasks[i].v \in LoopRevisions
              /\ Len(tasks[i].fetched) = k
              /\ k < tasks[i].retries)
             => tasks[i].pc = "backoff")

\* The entry points that resolve or load one reference
EntryPoints ==
  {"getCorsSafeImageUrl", "loadImageWithCorsFallback", "loadImageAsDataUrl",
   "smartRefreshImage", "normalizeImageUrl"}

\* An empty reference, or one that is not a string
NotAReference(url) == url.type # "string" \/ url.val = << >>

\* C15: given an empty or non-string reference, getCorsSafeImageUrl,
\* loadImageWithCorsFallback, loadImageAsDataUrl, smartRefreshImage and
\* normalizeImageUrl return null, without throwing, without a network call
\* and without a retry.
C15_NoReferenceReturnsNull ==
  \A i \in 1..Len(tasks) :
    (tasks[i].fn \in EntryPoints /\ NotAReference(tasks[i].url))
    => (/\ tasks[i].pc = "done"
        /\ tasks[i].result = Fulfilled(Null)
        /\ tasks[i].fetched = << >>
        /\ tasks[i].timers = << >>
        /\ tasks[i].waits = << >>
        /\ tasks[i].attempt = 0)

\* smartRefreshImage was called with a number and returned null at once.
C15_Witness ==
  \E i \in 1..Len(tasks) :
    /\ tasks[i].fn = "smartRefreshImage"
    /\ tasks[i].url = Num(42)
    /\ tasks[i].pc = "done"
    /\ tasks[i].result = Fulfilled(Null)
    /\ tasks[i].fetched = << >>

\* A reference of white space only, or one that is already a data: payload
NothingToFetch(url) ==
  /\ url.type = "string"
  /\ url.val # << >>
  /\ \/ Trim(url.val) = << >>
     \/ StartsWith(url.val, S(<<"d","a","t","a",":">>))

\* C16: a whitespace-only reference and a reference that is already a data:
\* payload have no route: loading one makes no fetch attempt at all.
C16_NothingToFetch ==
  \A i \in 1..Len(tasks) :
    (tasks[i].fn \in LoaderFns /\ NothingToFetch(tasks[i].url))
    => tasks[i].fetched = << >>

\* The age at the present time of the entry filed under key
Age(key) == now - MapGet(imageCache.entries, key).timestamp

\* C17: smartRefreshImage never returns as a hit a cache entry whose age
\* exceeds the 5-minute freshness window; a read of a stale entry always
\* starts a fresh resolution.
C17_StaleNeverHit ==
  [][\A i \in 1..Len(tasks') :
       (i > Len(tasks) /\ tasks'[i].fn = "smartRefreshImage")
       => (/\ tasks'[i].hit # << >>
                => (/\ imageCache.created
                    /\ MapHas(imageCache.entries, tasks'[i].key)
                    /\ tasks'[i].hit[1] = MapGet(imageCache.entries, tasks'[i].key)
                    /\ Age(tasks'[i].key) <= FreshnessWindow)
           /\ (/\ imageCache.created
               /\ MapHas(imageCache.entries, tasks'[i].key)
               /\ Age(tasks'[i].key) > FreshnessWindow)
              => (/\ tasks'[i].hit = << >>
                  /\ tasks'[i].pc = "fetch"
                  /\ Len(tasks'[i].fetched) = 1))]_vars

\* smartRefreshImage found an entry older than the window under its key and
\* is fetching the image again.
C17_Witness ==
  \E j \in 1..Len(tasks) :
    /\ tasks[j].fn = "smartRefreshImage"
    /\ tasks[j].pc = "fetch"
    /\ tasks[j].hit = << >>
    /\ imageCache.created
    /\ MapHas(imageCache.entries, tasks[j].key)
    /\ tasks[j].startedAt - MapGet(imageCache.entries, tasks[j].key).timestamp
         > FreshnessWindow

\* The query parameters that only defeat caches: those the loaders add
\* (_t, _r, _f, _v) and those of their fallback suffix (t, r)
VolatileParams ==
  << S(<<"_","t">>), S(<<"_","r">>), S(<<"_","f">>), S(<<"_","v">>),
     S(<<"t">>), S(<<"r">>) >>

\* The normalized form of a reference: trimmed, its volatile query
\* parameters stripped
NormalizedOf(trimmed, mark) ==
  LET kept == ParamsDeleteAll(URLSearchParams(Sub(trimmed, mark, Len(trimmed))),
                              VolatileParams)
  IN  Sub(trimmed, 1, mark - 1)
      \o (IF kept = << >> THEN << >> ELSE << 63 >> \o ParamsToString(kept))

Normalized(url) == NormalizedOf(Trim(url), FirstIn(Trim(url), 1, {63}))

\* C18: for two references with the same normalized form, a second
\* resolution made within the freshness window after a successful first one
\* returns the cached payload and makes no network retrieval.
C18_SameFormHitsCache ==
  \A i \in 1..(Len(tasks) - 1) :
    (/\ tasks[i].fn = "smartRefreshImage"
     /\ tasks[i + 1].fn = "smartRefreshImage"
     /\ Normalized(tasks[i].url.val) = Normalized(tasks[i + 1].url.val)
     /\ tasks[i].pc = "done"
     /\ tasks[i].result.state = "returned"
     /\ tasks[i].result.value.type = "string"
     /\ tasks[i + 1].startedAt - tasks[i].startedAt < FreshnessWindow)
    => (/\ tasks[i + 1].pc = "done"
        /\ tasks[i + 1].fetched = << >>
        /\ tasks[i + 1].result = tasks[i].result)

\* The retrievals of the batch that have started and not yet settled
InFlight == { i \in 1..Len(tasks) : tasks[i].pc # "done" }

\* C19: at every moment of a batch load (preloadImages,
\* batchLoadImagesWithCors, processBatch, optimizedImageLoader) the number
\* of retrievals that have started and not yet settled is at most the
\* configured batch size.
C19_InFlightWithinBatchSize ==
  (batch.fn # "none")
  => (/\ Cardinality(InFlight) <= batch.batchSize
      /\ batch.options.batchSize # Undefined
           => Cardinality(InFlight) <= batch.options.batchSize.num)

\* Two retrievals of a batch of three references are in flight under a batch
\* size of two.
C19_Witness ==
  /\ batch.fn = "preloadImages"
  /\ batch.options.batchSize = Num(2)
  /\ Len(batch.valid) = 3
  /\ Cardinality(InFlight) = 2
  /\ batch.group = 1

\* A reference a batch can load: a string that is not blank
IsReference(url) == url.type = "string" /\ Trim(url.val) # << >>

\* The batch loaders that return a Map from reference to result
MapLoaders == {"preloadImages", "batchLoadImagesWithCors", "optimizedImageLoader"}

\* A payload, or null
PayloadOrNull(value) ==
  value = Null \/ (value.type = "string" /\ value.val # << >>)

\* C20: when a batch load returns, its result map holds an entry, a payload
\* or null, for every input reference, whatever mix of successes and
\* failures occurred; the batch load does not throw because a reference
\* failed.
C20_EntryForEveryReference ==
  (batch.fn \in MapLoaders /\ batch.pc = "done")
  => \A k \in 1..Len(batch.urls) :
       IsReference(batch.urls[k])
       => (/\ MapHas(batch.results, batch.urls[k])
           /\ PayloadOrNull(MapGet(batch.results, batch.urls[k])))

\* Task t is in the attempt its k-th timer was armed for
AttemptOf(t, k) == k = Len(t.timers) /\ t.pc \in {"fetch", "canvas"}

\* C25: the timeout timer armed for a fetch or image-element attempt is
\* released when the attempt ends, by success, by failure or by the timeout
\* itself: a timer that is still armed belongs to the attempt in progress.
C25_TimerReleasedWithAttempt ==
  \A i \in 1..Len(tasks) :
    \A k \in 1..Len(tasks[i].timers) :
      (/\ tasks[i].timers[k].purpose \in {"abort", "canvas"}
       /\ tasks[i].timers[k].state = "armed")
      => AttemptOf(tasks[i], k)

\* Task t's retry loop is between two attempts, or it has ended
BetweenAttempts(t) == t.pc = "backoff"

\* C26: between the failed attempt i (i < N) and attempt i + 1 the retry
\* loop waits 2^i seconds, and it waits nothing after the last failed
\* attempt: the i-th wait of a loop is 2^i * 1000 ms, a loop in its backoff
\* after attempt i has waited i times, a loop elsewhere in attempt i has
\* waited i - 1 times, and so has one that ended.  (The two loops that
\* loadImageWithCorsFallback runs without useProxy share one list of waits
\* and are left out; loadImageDirect is covered by the calls with useProxy.)
C26_BackoffIsPowerOfTwo ==
  \A i \in 1..Len(tasks) :
    (tasks[i].v \in LoopRevisions /\ SingleLoop(tasks[i]))
    => (/\ \A k \in 1..Len(tasks[i].waits) : tasks[i].waits[k] = (2 ^ k) * 1000
        /\ Len(tasks[i].waits) =
             IF BetweenAttempts(tasks[i]) THEN tasks[i].attempt ELSE tasks[i].attempt - 1
        /\ Len(tasks[i].waits) < tasks[i].retries)

\* A loop that failed all of its three attempts and waited 2 s and 4 s
C26_Witness ==
  \E i \in 1..Len(tasks) :
    /\ tasks[i].v \in LoopRevisions
    /\ tasks[i].pc = "done"
    /\ tasks[i].retries = 3
    /\ AllFailed(tasks[i].plan)
    /\ Len(tasks[i].plan) = 3
    /\ tasks[i].waits = << 2000, 4000 >>

\* The image-element extractions task t has started
CanvasTries(t) == { k \in 1..Len(t.timers) : t.timers[k].purpose = "canvas" }

\* C27: in loadImageAsDataUrl (imageUtils.js:207-339) the image-element
\* extraction is tried only after every fetch attempt has failed, and at
\* most once; a load of a reference returns null only after the extraction
\* was tried and failed too, and else it returns a payload.
C27_CanvasIsLastResort ==
  \A i \in 1..Len(tasks) :
    (/\ tasks[i].fn = "loadImageAsDataUrl"
     /\ tasks[i].revision = "2"
     /\ ~NotAReference(tasks[i].url))
    => (/\ Cardinality(CanvasTries(tasks[i])) <= 1
        /\ CanvasTries(tasks[i]) # {}
             => (/\ Len(tasks[i].plan) = tasks[i].options.retries
                 /\ AllFailed(tasks[i].plan))
        /\ tasks[i].pc = "done"
             => IF CanvasTries(tasks[i]) # {} /\ tasks[i].result = Fulfilled(Null)
                THEN TRUE
                ELSE /\ tasks[i].result.state = "returned"
                     /\ tasks[i].result.value.type = "string"
                     /\ tasks[i].result.value.val # << >>)

\* C28: for a reference that is a non-empty string, loadImageWithCorsFallback
\* returns null only after at least one retrieval was attempted and failed,
\* also when the reference passes through getCorsSafeImageUrl unchanged
\* because its host is not on the allow-list.
C28_NullOnlyAfterAttempt ==
  \A i \in 1..Len(tasks) :
    (/\ tasks[i].fn = "loadImageWithCorsFallback"
     /\ tasks[i].url.type = "string"
     /\ Trim(tasks[i].url.val) # << >>
     /\ tasks[i].pc = "done"
     /\ tasks[i].result = Fulfilled(Null))
    => (/\ tasks[i].fetched # << >>
        /\ AllFailed(tasks[i].plan))

\* A tick of session s begins in this step
TickBegins(s) == sessions'[s].ticks # sessions[s].ticks

\* The refresh timers that are active
ActiveTimers == { s \in 1..Len(sessions) : sessions[s].intervalId = "active" }

\* C21: after maxRetries consecutive failed ticks the scheduler started by
\* startAutoRefresh has stopped itself: no tick of a session begins once
\* its count of consecutive failures has reached maxRetries, whatever else
\* happened in between.
C21_NoTickAfterMaxRetries ==
  [][\A s \in 1..Len(sessions) :
       sessions[s].retryCount >= sessions[s].maxRetries => ~TickBegins(s)]_vars

\* C22: a tick that fires while the document is hidden does nothing: it
\* starts no call of forceRefreshAllImages and leaves the failure counter
\* and the timer of its session as they were.
C22_HiddenTickDoesNothing ==
  [][\A s \in 1..Len(sessions) :
       (hidden /\ TickBegins(s))
       => (/\ refreshes' = refreshes
           /\ images' = images
           /\ sessions'[s].retryCount = sessions[s].retryCount
           /\ sessions'[s].intervalId = sessions[s].intervalId)]_vars

\* C23: once the stop handle of a session was called its timer is cleared
\* and no tick of the session begins; calling the handle of a session whose
\* timer is cleared already changes nothing: nothing at all after an
\* earlier call, and after the circuit breaker nothing but the fact that it
\* was called.
C23_StoppedSessionNeverTicks ==
  [][\A s \in 1..Len(sessions) :
       /\ sessions[s].stopped
            => (sessions[s].intervalId = "cleared" /\ ~TickBegins(s))
       /\ sessions[s].stopped => stopHandle(sessions[s]) = sessions[s]
       /\ (sessions[s].intervalId = "cleared" /\ ~sessions[s].stopped
             /\ sessions'[s].stopped)
            => (/\ sessions' = [sessions EXCEPT ![s].stopped = TRUE]
                /\ UNCHANGED << refreshes, images, hidden >>)]_vars

\* The stop handle of a session was called after the session ran a tick,
\* at a time when the page is ready for another tick
C23_Witness ==
  \E s \in 1..Len(sessions) :
    /\ sessions[s].stopped
    /\ sessions[s].ticks >= 1
    /\ sessions[s].retryCount < sessions[s].maxRetries
    /\ SumTo(TicksRun, Len(sessions)) < MaxIntervals
    /\ Len(refreshes) < MaxIntervals
    /\ NoRefreshWaiting

\* C24: at any time at most one refresh timer is active, also when a second
\* session is started before the first one was stopped.
C24_OneActiveTimer == Cardinality(ActiveTimers) <= 1

\* C29: forceRefreshAllImages writes the source of an image only when it
\* reports the refresh of that image as successful: an image it skipped
\* because its source is a data: payload keeps its source, and an image
\* whose refresh it reported as timed out or failed was not written, also
\* when the test image loads after the timeout.
C29_SourceWrittenOnlyOnSuccess ==
  \A r \in 1..Len(refreshes) :
    \A k \in 1..Len(refreshes[r].items) :
      /\ refreshes[r].items[k].state = "skipped"
           => (/\ ~refreshes[r].items[k].assigned
               /\ images[k].src = refreshes[r].items[k].originalSrc)
      /\ refreshes[r].items[k].assigned
           => refreshes[r].items[k].value = << TRUE >>

\* C30: while the refresh timer of a session is active its failure counter
\* is below maxRetries: every failed tick, one whose refresh throws
\* included, counts and stops the timer at the threshold.
C30_ActiveBelowMaxRetries ==
  \A s \in ActiveTimers : sessions[s].retryCount < sessions[s].maxRetries

\* The tick of session s that awaits call r ends in this step, with success
TickEnds(s, r, success) ==
  /\ refreshes[r].caller = s
  /\ refreshes[r].pc = "waiting"
  /\ refreshes'[r].pc = "done"
  /\ refreshes'[r].result = << success >>

\* The circuit breaker of session s trips in this step
BreakerTrips(s) ==
  /\ sessions[s].intervalId = "active"
  /\ sessions'[s].intervalId = "cleared"
  /\ ~sessions'[s].stopped

\* C31: the failure counter of the scheduler counts consecutive failures:
\* a successful tick resets it to 0, a failed tick adds one, nothing else
\* changes it, and the scheduler stops itself only on a failed tick that
\* brings the counter to maxRetries; a run of fewer than maxRetries
\* failures in a row never stops it.
C31_CounterIsConsecutiveFailures ==
  [][\A s \in 1..Len(sessions) :
       /\ \A r \in 1..Len(refreshes) :
            /\ TickEnds(s, r, TRUE) => sessions'[s].retryCount = 0
            /\ TickEnds(s, r, FALSE)
                 => sessions'[s].retryCount = sessions[s].retryCount + 1
       /\ sessions'[s].retryCount # sessions[s].retryCount
            => \/ \E r \in 1..Len(refreshes) : TickEnds(s, r, TRUE) \/ TickEnds(s, r, FALSE)
               \/ /\ sessions'[s].failed = sessions[s].failed + 1
                  /\ sessions'[s].retryCount = sessions[s].retryCount + 1
       /\ BreakerTrips(s)
            => (/\ sessions'[s].retryCount = sessions[s].retryCount + 1
                /\ sessions'[s].retryCount >= sessions[s].maxRetries)]_vars

\* A session whose ticks failed maxRetries times, though not in a row, and
\* whose timer is still active
C31_Witness ==
  \E s \in 1..Len(sessions) :
    /\ sessions[s].failed >= sessions[s].maxRetries
    /\ sessions[s].retryCount < sessions[s].maxRetries
    /\ sessions[s].retryCount > 0
    /\ sessions[s].intervalId = "active"
    /\ ValidSelector(sessions[s].selector)

\* The maximum entry count the shared cache is configured with: maxSize of
\* the last call of cleanupImageCache, its default before any call
ConfiguredMaximum ==
  IF cleaned.calls = 0 THEN CleanupMaxSize ELSE cleaned.maxSize

\* C32: the number of entries of the shared image cache never exceeds its
\* configured maximum entry count, and neither does the number of entries
\* of a cache made by createCache(maxSize).
C32_CacheWithinMaximum ==
  /\ Len(imageCache.entries) <= ConfiguredMaximum
  /\ store.created => Len(store.entries) <= store.maxSize

Keys(entries) == { entries[k][1] : k \in 1..Len(entries) }

\* The key cache.set is called with in this step, if it is called
SetOf(key) ==
  /\ store.created
  /\ store'.puts = store.puts + 1
  /\ MapHas(store'.entries, key)
  /\ MapGet(store'.entries, key) = store'.puts

Evicted == Keys(store.entries) \ Keys(store'.entries)

\* C33: cache.set evicts an entry only when storing the value would make
\* the entry count exceed the maximum; it then evicts exactly one entry,
\* the oldest by write time; overwriting a key that is present evicts
\* nothing.
C33_SetEvictsOldestWhenFull ==
  [][\A key \in StoreKeys :
       SetOf(key) =>
         /\ Evicted # {}
              => /\ ~MapHas(store.entries, key)
                 /\ Len(store.entries) + 1 > store.maxSize
                 /\ Cardinality(Evicted) = 1
                 /\ \A k \in Evicted, j \in Keys(store.entries) :
                      MapGet(store.entries, k) <= MapGet(store.entries, j)
         /\ (~MapHas(store.entries, key) /\ Len(store.entries) + 1 > store.maxSize)
              => Evicted # {}
         /\ MapHas(store.entries, key) => Evicted = {}]_vars

\* cleanupImageCache runs in this step.
Cleans == cleaned'.calls = cleaned.calls + 1

\* The entries cleanupImageCache finds younger than maxAge
Young == { e \in MapValues(imageCache.entries) :
             now - e.timestamp < cleaned'.maxAge }

\* C34: after cleanupImageCache(maxAge, maxSize) the shared cache holds
\* exactly the entries that were younger than maxAge, reduced to the
\* maxSize most recently written ones when there are more; every other
\* entry is gone and no retained entry is altered.
C34_CleanupKeepsYoungestRecent ==
  [][(Cleans /\ imageCache.created) =>
       /\ \A k \in 1..Len(imageCache'.entries) :
            /\ MapHas(imageCache.entries, imageCache'.entries[k][1])
            /\ MapGet(imageCache.entries, imageCache'.entries[k][1])
                 = imageCache'.entries[k][2]
            /\ imageCache'.entries[k][2] \in Young
            /\ \A j \in 1..Len(imageCache'.entries) :
                 imageCache'.entries[j][1] = imageCache'.entries[k][1] => j = k
       /\ Len(imageCache'.entries) =
            (IF Cardinality({ k \in 1..Len(imageCache.entries) :
                               imageCache.entries[k][2] \in Young }) < cleaned'.maxSize
             THEN Cardinality({ k \in 1..Len(imageCache.entries) :
                                  imageCache.entries[k][2] \in Young })
             ELSE cleaned'.maxSize)
       /\ \A k \in 1..Len(imageCache.entries) :
            (/\ imageCache.entries[k][2] \in Young
             /\ ~MapHas(imageCache'.entries, imageCache.entries[k][1]))
              => \A j \in 1..Len(imageCache'.entries) :
                   imageCache'.entries[j][2].timestamp
                     >= imageCache.entries[k][2].timestamp]_vars

\* A cleanup has kept the more recent of two entries younger than maxAge
\* and removed the other.
C34_Witness ==
  /\ cleaned.calls > 0
  /\ cleaned.removed = 1
  /\ cleaned.maxSize = 1
  /\ cleaned.maxAge = CleanupMaxAge
  /\ now < CleanupMaxAge
  /\ Len(imageCache.entries) = 1
  /\ imageCache.entries[1][2].timestamp > 0

\* The call i of smartRefreshImage returns in this step.
Returns(i) ==
  /\ tasks[i].fn = "smartRefreshImage"
  /\ tasks[i].pc # "done"
  /\ tasks'[i].pc = "done"

\* C35: a resolution that ends in failure writes nothing to the cache:
\* smartRefreshImage stores an entry only when the load returned a
\* payload, and after a failed load every entry of the cache, a stale one
\* for the same key included, is unchanged.
C35_FailureWritesNothing ==
  [][/\ \A i \in 1..Len(tasks) :
          (Returns(i) /\ ~Truthy(tasks'[i].result.value))
            => imageCache'.entries = imageCache.entries
     /\ imageCache'.entries # imageCache.entries
          => \E i \in 1..Len(tasks) :
               /\ Returns(i)
               /\ Truthy(tasks'[i].result.value)
               /\ imageCache'.entries =
                    MapSet(imageCache.entries, tasks[i].key,
                           [dataUrl |-> tasks'[i].result.value.val,
                            timestamp |-> now])]_vars

\* A call failed for a key the cache holds a stale entry of.
C35_Witness ==
  \E i \in 1..Len(tasks) :
    /\ tasks[i].fn = "smartRefreshImage"
    /\ tasks[i].pc = "done"
    /\ tasks[i].result.value = Null
    /\ ~InvalidReference(tasks[i].url)
    /\ MapHas(imageCache.entries, tasks[i].key)
    /\ ~IsFresh(imageCache, tasks[i].key, tasks[i].startedAt)

\* The retrieval i of the batch settles in this step without a payload.
FailsNow(i) ==
  /\ tasks[i].pc # "done"
  /\ tasks'[i].pc = "done"
  /\ (tasks'[i].result.state = "thrown" \/ ~Truthy(tasks'[i].result.value))

NoDuplicates(urls) ==
  \A j, k \in 1..Len(urls) : urls[j] = urls[k] => j = k

\* The number of references in the groups up to group g
RECURSIVE StartedUpTo(_, _)
StartedUpTo(groups, g) ==
  IF g = 0 THEN 0 ELSE Len(groups[g]) + StartedUpTo(groups, g - 1)

\* The groups of a batch run one after another: the retrievals that exist
\* are those of the groups up to the current one, and those of the earlier
\* groups have all settled
GroupsInTurn ==
  (batch.fn # "none")
  => (/\ Len(tasks) = StartedUpTo(batch.groups, batch.group)
      /\ \A i \in 1..Len(tasks) : i < batch.first => tasks[i].pc = "done"
      /\ batch.pc \in {"pausing", "done"} => InFlight = {})

QueryUrlOf(route) ==
  LET params == URLSearchParams(ParseURL(route).val.search)
  IN  IF MapHas(params, UrlParam) THEN Str(MapGet(params, UrlParam)) ELSE Undefined

\* The resolver was called with an absolute URL on the allow-list and
\* answered with a prod-relay route.
ProdRouteBuilt ==
  /\ resolved.fn \in {"getCorsSafeImageUrl", "safeImgSrc"}
  /\ resolved.out # Pending
  /\ resolved.ref.type = "string"
  /\ Trim(resolved.ref.val) = resolved.ref.val
  /\ ParseURL(resolved.ref.val).ok
  /\ ~NotOnAllowList(ParseURL(resolved.ref.val).val.hostname)
  /\ resolved.out.type = "string"
  /\ Includes(resolved.out.val, ProxyPath \o << 63 >> \o UrlParam \o << 61 >>)

\* C37: round trip between resolver and relay: for every allow-listed
\* absolute URL u, the URL the relay retrieves after decoding the url
\* parameter of the prod-relay route built for u is exactly u, also when u
\* contains percent-escapes or query parameters.
C37_RouteRoundTrip ==
  ProdRouteBuilt
  => \A v \in 1..3 :
       /\ Len(handlerEntry(v, [method |-> "GET",
                               url |-> QueryUrlOf(resolved.out.val)]).fetch) = 1
       /\ handlerEntry(v, [method |-> "GET",
                           url |-> QueryUrlOf(resolved.out.val)]).fetch[1].url
            = resolved.ref.val

\* The relay contacts the upstream only for a GET request with a url
\* parameter whose host is on the allow-list; a request the method check
\* rejects is answered 405 and one the parameter check rejects 400,
\* whatever the later checks would have said; no request is answered twice.
ChecksInOrder ==
  /\ res.finished <= 1
  /\ pc = "done" => res.finished = 1
  /\ fetched # << >>
       => (/\ req.method = "GET"
           /\ Truthy(req.url)
           /\ Len(fetched) = 1
           /\ ParseURL(fetched[1].url).ok
           /\ ~NotOnAllowList(ParseURL(fetched[1].url).val.hostname))
  /\ (req # NoRequest /\ req.method \notin {"GET", "OPTIONS"})
       => (res.statusCode = 405 /\ fetched = << >>)
  /\ (req # NoRequest /\ req.method = "GET" /\ ~Truthy(req.url))
       => (res.statusCode = 400 /\ fetched = << >>)

\* C38: for every request the relay handler emits exactly one response, and
\* it contacts the upstream only after the method check, the parameter
\* check and the allow-list check have all passed, in that order; a request
\* rejected by an earlier check is never examined by a later one.
C38_OneResponseAfterChecks ==
  /\ []ChecksInOrder
  /\ (req # NoRequest) ~> (res.finished = 1)

\* The invocations of handleSharePdf that are making or sharing a PDF
Sharing == { i \in 1..Len(share.calls) : share.calls[i].pc # "done" }

\* C39: at most one PDF generation started by handleSharePdf is in
\* progress at any time: while one share is running, a further invocation
\* returns without starting a generation and without clearing the
\* in-progress flag or re-enabling the button; the flag is cleared only
\* when the running share ends.
C39_OneShareAtATime ==
  /\ [](Cardinality(Sharing) <= 1)
  /\ [][/\ (Sharing # {} /\ Len(share'.calls) > Len(share.calls))
            => (/\ share'.calls[Len(share'.calls)].pc = "done"
                /\ share'.isSharing = share.isSharing
                /\ share'.btn = share.btn)
        /\ (share.isSharing /\ ~share'.isSharing)
            => \E i \in Sharing : share'.calls[i].pc = "done"]_vars

\* Every reference is fetched at most as often as its retry bound says,
\* and the retrievals that exist are those of the groups begun, each once
AttemptsAndGroupsBounded ==
  /\ \A i \in 1..Len(tasks) :
       tasks[i].pc # "called" => Len(tasks[i].fetched) <= tasks[i].retries
  /\ \A i \in 1..Len(tasks) : tasks[i].retries <= tasks[i].options.retries
  /\ (batch.fn # "none")
       => (/\ batch.group <= Len(batch.groups)
           /\ Len(tasks) = StartedUpTo(batch.groups, batch.group))

====
